---- MODULE Spec2Model ----
(***************************************************************************)
(* Request-processing pipeline of the personal-assistant orchestrator:     *)
(* Orchestrator.process (src/src/orchestrator/core.py) with its stores,    *)
(* the Response Cache (src/src/models/cache.py), the Cost Ledger           *)
(* (src/src/models/cost_tracker.py) and the Message Log                    *)
(* (src/src/message_bus.py), and the two model backends it calls.          *)
(*                                                                         *)
(* Text is modelled by TLA+ strings: Len is the character length, \o is    *)
(* concatenation.  Money is counted in units of 10^-8 USD, in which the    *)
(* price table and the cost formula are exact integers.                    *)
(*                                                                         *)
(* process is an async generator.  One call is one element of Calls; its   *)
(* position in the code is pc[c].  A call suspended at a yield is resumed  *)
(* by its caller (Resume) or closed by it (Close: GeneratorExit is raised  *)
(* at the yield).                                                          *)
(***************************************************************************)
EXTENDS Integers, Sequences, FiniteSets, TLC

(***************************************************************************)
(* Bounds of the model.                                                    *)
(***************************************************************************)
\* The longest provider stream, in tokens.
MaxTokens == 2
\* How many times the clock is advanced.
MaxTicks == 1

\* Two calls of process: the second one finds what the first one left in the
\* stores, and the two may overlap.
Calls == {1, 2}

UserMessages == {"hi"}
Sources == {"dashboard"}
\* What the memory store's search may return: no fact, or one recalled fact.
FactLists == {<<>>, <<"likes tea">>}
\* A provider's stream delivers a prefix of ProviderStream, repeated when the
\* stream is longer; a non-streaming call returns one of ProviderTexts.
ProviderStream == <<"po", "ng">>
ProviderTexts == {"", "pong"}
OllamaTexts == {"local"}
ProviderErrors == {"timeout"}
OllamaErrors == {"refused"}
\* Values of budget.daily_usd tried, in units of 10^-8 USD.
DailyCaps == {2010, 4000}
\* Value of budget.monthly_usd tried, in units of 10^-8 USD.
MonthlyCaps == {2010}

(***************************************************************************)
(* Program constants.                                                      *)
(***************************************************************************)
ttl_seconds == 3600
n_results == 3
SecondsPerDay == 86400

SystemPrompt ==
  "You are an AI orchestrator with access to the user's device. You can:\n- Read and write files (you will receive tool outputs)\n- Use external APIs when the user provides keys\n- Execute tasks and respond helpfully\n\nRules:\n- Do not send messages or make external API calls without user permission unless explicitly asked\n- Be concise but helpful\n- When writing files, use the output directory provided\n- If you need to do something you cannot do, explain what's needed\n\nThe user will send you messages. Respond appropriately."

\* USD per 1000 tokens, in units of 10^-5 USD; a token then costs the
\* listed number of 10^-8 USD.
MODEL_COSTS ==
  [m \in {"gpt-4o", "gpt-4o-mini", "gpt-4-turbo", "claude-3-5-sonnet", "claude-3-haiku"} |->
     CASE m = "gpt-4o" -> [input |-> 500, output |-> 1500]
       [] m = "gpt-4o-mini" -> [input |-> 15, output |-> 60]
       [] m = "gpt-4-turbo" -> [input |-> 1000, output |-> 3000]
       [] m = "claude-3-5-sonnet" -> [input |-> 300, output |-> 1500]
       [] m = "claude-3-haiku" -> [input |-> 25, output |-> 125]]

DefaultCosts == [input |-> 100, output |-> 200]

(***************************************************************************)
(* Helpers on text.                                                        *)
(***************************************************************************)
Max(a, b) == IF a >= b THEN a ELSE b

\* t occurs in s as a substring.
Contains(s, t) ==
  \E i \in 1..(Len(s) - Len(t) + 1) : SubSeq(s, i, i + Len(t) - 1) = t

RECURSIVE Concat(_)
Concat(toks) == IF toks = <<>> THEN "" ELSE Head(toks) \o Concat(Tail(toks))

\* "\n".join(lines)
RECURSIVE JoinLines(_)
JoinLines(lines) ==
  IF lines = <<>> THEN ""
  ELSE IF Len(lines) = 1 THEN lines[1]
  ELSE lines[1] \o "\n" \o JoinLines(Tail(lines))

\* f"{d:.2f}" of an amount d given in units of 10^-8 USD.
TwoDigits(n) == IF n < 10 THEN "0" \o ToString(n) ELSE ToString(n)
FormatUsd2(d) ==
  LET cents == (d + 500000) \div 1000000
  IN ToString(cents \div 100) \o "." \o TwoDigits(cents % 100)

VARIABLES
  \* Orchestrator.__init__: the snapshot of the configuration
  settings,        \* [use_subagents, budget_enabled, daily_usd, monthly_usd]
  model,           \* self._model
  router,          \* self._router: "None" until the router is constructed
  \* the persisted configuration, read again by OllamaClient and get_env
  persisted,       \* [ollama_enabled, openai_api_key]
  \* the stores
  message_log,     \* rows of the messages table, in id order
  cost_log,        \* rows of the cost_log table, in id order
  cache,           \* the cache table: key -> [value, created_at], or absent
  now,             \* the clock, in seconds
  \* one process call
  pc,              \* position of the call in process
  user_message, source, stream,
  context,         \* the local context
  full_response,   \* the local full_response
  exc,             \* the exception e bound by "except Exception as e"
  \* history of a call, kept for the properties only
  out,             \* the tokens the caller received, in order
  hist,            \* what the call did: counters and flags
  \* a client that uses a store directly
  ttl,             \* ResponseCache.ttl
  ops              \* the operations the client applied, with their results

vars == <<settings, model, router, persisted, message_log, cost_log, cache, now,
          pc, user_message, source, stream, context, full_response, exc, out, hist,
          ttl, ops>>

storeVars == <<message_log, cost_log, cache>>
configVars == <<settings, model, router, persisted, ttl>>

(***************************************************************************)
(* Message Log (MessageBus).  AUTOINCREMENT ids: with no row ever deleted  *)
(* the next id is the number of rows plus one.  The timestamp column is    *)
(* left out: nothing reads it.                                             *)
(***************************************************************************)
BusLogReusesId(log, src, tgt, role, content, metadata) ==
  Append(log, [id |-> Max(1, Len(log)), source |-> src, target |-> tgt,
               role |-> role, content |-> content, metadata |-> metadata])

BusLog(log, src, tgt, role, content, metadata) ==
  Append(log, [id |-> Len(log) + 1, source |-> src, target |-> tgt,
               role |-> role, content |-> content, metadata |-> metadata])

NoMetadata == <<>>

(***************************************************************************)
(* Cost Ledger (CostTracker).                                              *)
(***************************************************************************)
CostsListedOnly(m) ==
  IF m \in DOMAIN MODEL_COSTS THEN MODEL_COSTS[m] ELSE MODEL_COSTS["gpt-4o-mini"]

\* line 46: MODEL_COSTS.get(model, {"input": 0.001, "output": 0.002})
Costs(m) == IF m \in DOMAIN MODEL_COSTS THEN MODEL_COSTS[m] ELSE DefaultCosts

\* The cost log returns: input_tokens / 1000 * price_in + output_tokens /
\* 1000 * price_out.
Cost(m, input_tokens, output_tokens) ==
  input_tokens * Costs(m).input + output_tokens * Costs(m).output

\* CostTracker.log: the ledger after the insert, and the cost it returns.
CostTrackerLog(cl, t, agent_id, m, input_tokens, output_tokens) ==
  LET cost == Cost(m, input_tokens, output_tokens) IN
  [cost_log |-> Append(cl, [timestamp |-> t, agent_id |-> agent_id, model |-> m,
                            input_tokens |-> input_tokens,
                            output_tokens |-> output_tokens,
                            cost_usd |-> cost]),
   cost |-> cost]

\* The ledger after a call of log whose result the caller drops.
CostLog(cl, t, agent_id, m, input_tokens, output_tokens) ==
  CostTrackerLog(cl, t, agent_id, m, input_tokens, output_tokens).cost_log

\* date(timestamp) of sqlite: the UTC day number.
Date(t) == t \div SecondsPerDay

RECURSIVE SumCostAllDays(_, _)
SumCostAllDays(cl, day) ==
  IF cl = <<>> THEN 0 ELSE Head(cl).cost_usd + SumCostAllDays(Tail(cl), day)

\* SELECT COALESCE(SUM(cost_usd), 0) ... WHERE date(timestamp) = <day>
RECURSIVE SumCost(_, _)
SumCost(cl, day) ==
  IF cl = <<>> THEN 0
  ELSE (IF Date(Head(cl).timestamp) = day THEN Head(cl).cost_usd ELSE 0)
       + SumCost(Tail(cl), day)

RECURSIVE get_all_time_total(_, _)
get_all_time_total(cl, t) ==
  IF cl = <<>> THEN 0 ELSE Head(cl).cost_usd + get_all_time_total(Tail(cl), t)

get_daily_total(cl, t) == SumCost(cl, Date(t))

\* The days of 1970 before the first day of each month.
DaysBeforeMonth == <<0, 31, 59, 90, 120, 151, 181, 212, 243, 273, 304, 334>>

\* strftime('%Y-%m', timestamp) of sqlite, for the instants of 1970: the
\* number of the month.
Month(t) == Cardinality({i \in DOMAIN DaysBeforeMonth : DaysBeforeMonth[i] <= Date(t)})

\* SELECT COALESCE(SUM(cost_usd), 0) ... WHERE strftime('%Y-%m', timestamp)
\* = strftime('%Y-%m', 'now')
RECURSIVE get_monthly_total(_, _)
get_monthly_total(cl, t) ==
  IF cl = <<>> THEN 0
  ELSE (IF Month(Head(cl).timestamp) = Month(t) THEN Head(cl).cost_usd ELSE 0)
       + get_monthly_total(Tail(cl), t)

(***************************************************************************)
(* Response Cache.  The key is the SHA-256 of the JSON text of             *)
(* {"model": ..., "messages": ...} with sorted keys; the digest is taken   *)
(* to be collision-free, so the key is the serialized content itself.      *)
(***************************************************************************)
Hash(m, msgs) == [model |-> m, messages |-> msgs]

(***************************************************************************)
(* _hash on Python values.  A message is a dict, given as the sequence of  *)
(* its (key, value) items in insertion order; json.dumps writes the items  *)
(* of every dict in the order of their keys (sort_keys=True), with the     *)
(* separators ", " and ": ", and escapes the quote, the backslash and the  *)
(* newline inside a string.  Hash above is this key for messages given as  *)
(* records, which have no field order.                                     *)
(***************************************************************************)
Letters == "_abcdefghijklmnopqrstuvwxyz"

\* The rank of a character of a dict key among the characters of keys.
CharCode(ch) == CHOOSE i \in 1..Len(Letters) : SubSeq(Letters, i, i) = ch

\* a < b on Python strings: the order of the first character that differs.
RECURSIVE StrLess(_, _)
StrLess(a, b) ==
  IF b = "" THEN FALSE
  ELSE IF a = "" THEN TRUE
  ELSE LET x == CharCode(SubSeq(a, 1, 1))
           y == CharCode(SubSeq(b, 1, 1))
       IN IF x # y THEN x < y
          ELSE StrLess(SubSeq(a, 2, Len(a)), SubSeq(b, 2, Len(b)))

KeepInsertionOrder(items) == items

\* sorted(dct.items()) of json.dumps(..., sort_keys=True)
RECURSIVE SortItems(_)
SortItems(items) ==
  IF items = <<>> THEN <<>>
  ELSE LET rest == SortItems(Tail(items))
           n == Cardinality({i \in DOMAIN rest : StrLess(rest[i][1], Head(items)[1])})
       IN SubSeq(rest, 1, n) \o <<Head(items)>> \o SubSeq(rest, n + 1, Len(rest))

RECURSIVE JsonEscape(_)
JsonEscape(text) ==
  IF text = "" THEN ""
  ELSE LET ch == SubSeq(text, 1, 1) IN
       (IF ch = "\"" THEN "\\\""
        ELSE IF ch = "\\" THEN "\\\\"
        ELSE IF ch = "\n" THEN "\\n"
        ELSE ch) \o JsonEscape(SubSeq(text, 2, Len(text)))

JsonString(text) == "\"" \o JsonEscape(text) \o "\""

\* ", ".join(texts)
RECURSIVE JoinComma(_)
JoinComma(texts) ==
  IF texts = <<>> THEN ""
  ELSE IF Len(texts) = 1 THEN texts[1]
  ELSE texts[1] \o ", " \o JoinComma(Tail(texts))

\* A dict whose values are JSON texts already.
JsonObject(items) ==
  LET sorted == SortItems(items) IN
  "{" \o JoinComma([i \in DOMAIN sorted |->
                      JsonString(sorted[i][1]) \o ": " \o sorted[i][2]]) \o "}"

JsonMessage(dict) ==
  JsonObject([i \in DOMAIN dict |-> <<dict[i][1], JsonString(dict[i][2])>>])

JsonList(msgs) ==
  "[" \o JoinComma([i \in DOMAIN msgs |-> JsonMessage(msgs[i])]) \o "]"

\* json.dumps({"model": model, "messages": messages}, sort_keys=True)
JsonDumps(m, msgs) ==
  JsonObject(<< <<"model", JsonString(m)>>, <<"messages", JsonList(msgs)>> >>)

\* hashlib.sha256(data.encode()).hexdigest(): the digest is taken to be
\* collision-free, it stands for the text it digests.
Sha256Hex(data) == <<"sha256", data>>

HashJson(m, msgs) == Sha256Hex(JsonDumps(m, msgs))

CacheGetKeyNoTtlGuard(ch, self_ttl, t, key) ==
  IF key \notin DOMAIN ch
    THEN [value |-> <<>>, cache |-> ch]
  ELSE IF (t - ch[key].created_at) > self_ttl
    THEN [value |-> <<>>,
          cache |-> [k \in DOMAIN ch \ {key} |-> ch[k]]]
  ELSE [value |-> <<ch[key].value>>, cache |-> ch]

CacheGetKeySweeps(ch, self_ttl, t, key) ==
  IF key \notin DOMAIN ch
    THEN [value |-> <<>>, cache |-> ch]
  ELSE IF self_ttl > 0 /\ (t - ch[key].created_at) > self_ttl
    THEN [value |-> <<>>,
          cache |-> [k \in {j \in DOMAIN ch : (t - ch[j].created_at) <= self_ttl}
                       |-> ch[k]]]
  ELSE [value |-> <<ch[key].value>>, cache |-> ch]

\* get, from the SELECT on: the value (<<v>>) or None (<<>>), and the table
\* after it.  self_ttl is self.ttl.
CacheGetKey(ch, self_ttl, t, key) ==
  IF key \notin DOMAIN ch
    THEN [value |-> <<>>, cache |-> ch]
  ELSE IF self_ttl > 0 /\ (t - ch[key].created_at) > self_ttl
    THEN [value |-> <<>>,
          cache |-> [k \in DOMAIN ch \ {key} |-> ch[k]]]
  ELSE [value |-> <<ch[key].value>>, cache |-> ch]

CacheSetKeyIgnores(ch, t, key, response) ==
  [k \in DOMAIN ch \cup {key} |->
     IF k \in DOMAIN ch THEN ch[k] ELSE [value |-> response, created_at |-> t]]

\* set, from the INSERT OR REPLACE on.  key is the PRIMARY KEY of the table:
\* the table is a function of the key.
CacheSetKey(ch, t, key, response) ==
  [k \in DOMAIN ch \cup {key} |->
     IF k = key THEN [value |-> response, created_at |-> t] ELSE ch[k]]

CacheGet(ch, self_ttl, t, m, msgs) == CacheGetKey(ch, self_ttl, t, Hash(m, msgs))

CacheSet(ch, t, m, msgs, response) == CacheSetKey(ch, t, Hash(m, msgs), response)

\* Python's truth value of what get returned (None and "" are false).
TruthyOpt(v) == v # <<>> /\ v[1] # ""

(***************************************************************************)
(* The prompt of a call (core.py, lines 67 to 78).                         *)
(***************************************************************************)
ContextOf(facts) ==
  IF facts # <<>> THEN "\nRelevant context:\n" \o JoinLines(facts) ELSE ""

Messages(ctx, msg) ==
  << [role |-> "system", content |-> SystemPrompt \o ctx],
     [role |-> "user", content |-> msg] >>

\* sum(len(m.get("content", "")) for m in messages)
RECURSIVE ContentChars(_)
ContentChars(msgs) ==
  IF msgs = <<>> THEN 0 ELSE Len(Head(msgs).content) + ContentChars(Tail(msgs))

BudgetMessage(daily) ==
  "Budget cap reached (daily $" \o FormatUsd2(daily)
    \o "). Set budget.enabled: false or increase daily_usd."

CombinedErrorDropsPrimary(e, e2) == "Ollama fallback failed: " \o e2

\* line 125
CombinedError(e, e2) == "Cloud API error: " \o e \o ". Ollama fallback failed: " \o e2
SingleError(e) == "Error: " \o e

CredentialError == "OpenAI API key not set. Run: python main.py setup"
AttributeErrorText == "'LLMAgent' object has no attribute 'project_root'"

(***************************************************************************)
(* History of a call.                                                      *)
(***************************************************************************)
NoHist ==
  [primary_calls |-> 0,   \* calls of complete
   fallback_calls |-> 0,  \* calls of OllamaClient.complete
   mem_raised |-> FALSE,  \* the memory search raised
   sent |-> <<>>,         \* the message lists handed to complete
   rows |-> <<>>,         \* ids of the message-log rows the call appended
   cost_rows |-> 0,       \* cost-log rows the call appended
   cache_sets |-> 0,      \* cache writes of the call
   daily |-> <<>>,        \* the daily total the budget check read
   cached |-> <<>>,       \* what the cache lookup returned
   got |-> <<>>,          \* the texts the primary backend delivered
   fb |-> <<>>,           \* what the fallback backend did
   path |-> "none"]       \* the branch that produced the reply

Init ==
  /\ settings \in [use_subagents : BOOLEAN, budget_enabled : BOOLEAN,
                   daily_usd : DailyCaps, monthly_usd : MonthlyCaps]
  /\ model = "gpt-4o-mini"
  /\ router = "None"
  /\ persisted \in [ollama_enabled : BOOLEAN, openai_api_key : BOOLEAN]
  /\ message_log = <<>>
  /\ cost_log = <<>>
  /\ cache = <<>>
  /\ now = 0
  /\ pc = [c \in Calls |-> "idle"]
  /\ user_message = [c \in Calls |-> ""]
  /\ source = [c \in Calls |-> ""]
  /\ stream = [c \in Calls |-> FALSE]
  /\ context = [c \in Calls |-> ""]
  /\ full_response = [c \in Calls |-> ""]
  /\ exc = [c \in Calls |-> ""]
  /\ out = [c \in Calls |-> <<>>]
  /\ hist = [c \in Calls |-> NoHist]
  /\ ttl = ttl_seconds
  /\ ops = <<>>

(***************************************************************************)
(* Collaborators whose answer the pipeline does not control.               *)
(***************************************************************************)
\* MemoryStore.search(query, n_results): a list of at most n_results facts,
\* or an exception of the semantic index.
MemoryOutcomes ==
  {[raised |-> TRUE, facts |-> <<>>]}
    \cup {[raised |-> FALSE, facts |-> f] : f \in {g \in FactLists : Len(g) <= n_results}}

\* LLMAgent.__init__ reads self.project_root, an attribute no class defines:
\* constructing the router's default agent raises AttributeError.
LLMAgentInit == [raised |-> TRUE, error |-> AttributeErrorText]

\* complete(root, model, messages, stream) up to the provider call: the
\* credential check of the selected provider, read from the persisted
\* configuration at the time of the call.
CompleteCredential(env) ==
  IF ~env.openai_api_key THEN [raised |-> TRUE, error |-> CredentialError]
  ELSE [raised |-> FALSE, error |-> ""]

Set(f, c, v) == [f EXCEPT ![c] = v]

(***************************************************************************)
(* process, lines 61 to 66: the routed mode, or the record of receipt.     *)
(***************************************************************************)
ProcessNoReceipt(c, msg, src, st) ==
  /\ pc[c] = "idle"
  /\ \A b \in Calls : b < c => pc[b] # "idle"
  /\ ~settings.use_subagents
  /\ user_message' = Set(user_message, c, msg)
  /\ source' = Set(source, c, src)
  /\ stream' = Set(stream, c, st)
  /\ pc' = Set(pc, c, "memory")
  /\ UNCHANGED <<configVars, ops, storeVars, now, context, full_response, exc, out, hist>>

Process(c, msg, src, st) ==
  /\ pc[c] = "idle"
  \* calls are numbered in the order in which they start
  /\ \A b \in Calls : b < c => pc[b] # "idle"
  /\ user_message' = Set(user_message, c, msg)
  /\ source' = Set(source, c, src)
  /\ stream' = Set(stream, c, st)
  /\ IF settings.use_subagents
       THEN \* self.router constructs AgentRouter, which constructs LLMAgent
            /\ pc' = Set(pc, c, IF LLMAgentInit.raised THEN "raised" ELSE "routed")
            /\ exc' = Set(exc, c, LLMAgentInit.error)
            /\ UNCHANGED <<message_log, hist>>
       ELSE /\ message_log' = BusLog(message_log, src, "orchestrator", "user", msg, NoMetadata)
            /\ hist' = [hist EXCEPT ![c].rows = Append(@, Len(message_log) + 1)]
            /\ pc' = Set(pc, c, "memory")
            /\ UNCHANGED exc
  /\ UNCHANGED <<configVars, ops, cost_log, cache, now, context, full_response, out>>

(***************************************************************************)
(* Lines 67 to 78: memory augmentation, best effort.                       *)
(***************************************************************************)
MemorySearchPropagates(c) ==
  /\ pc[c] = "memory"
  /\ \E r \in MemoryOutcomes :
       /\ context' = Set(context, c, IF r.raised THEN "" ELSE ContextOf(r.facts))
       /\ hist' = [hist EXCEPT ![c].mem_raised = r.raised]
       /\ pc' = Set(pc, c, IF r.raised THEN "raised" ELSE "budget")
  /\ UNCHANGED <<configVars, ops, storeVars, now, user_message, source, stream,
                 full_response, exc, out>>

MemorySearch(c) ==
  /\ pc[c] = "memory"
  /\ \E r \in MemoryOutcomes :
       /\ context' = Set(context, c, IF r.raised THEN "" ELSE ContextOf(r.facts))
       /\ hist' = [hist EXCEPT ![c].mem_raised = r.raised]
  /\ pc' = Set(pc, c, "budget")
  /\ UNCHANGED <<configVars, ops, storeVars, now, user_message, source, stream,
                 full_response, exc, out>>

(***************************************************************************)
(* Lines 79 to 85: the budget check.                                       *)
(***************************************************************************)
OverBudgetStrict(daily, cap) == daily > cap

\* line 81: daily >= self.settings.budget.daily_usd
OverBudget(daily, cap) == daily >= cap

AfterBudgetAlwaysCache(st) == "cache"

\* line 87: "if not stream" guards the cache lookup
AfterBudget(st) == IF st THEN "primary" ELSE "cache"

BudgetCheck(c) ==
  /\ pc[c] = "budget"
  /\ LET daily == get_daily_total(cost_log, now) IN
     IF settings.budget_enabled /\ OverBudget(daily, settings.daily_usd)
       THEN /\ full_response' = Set(full_response, c, BudgetMessage(daily))
            /\ message_log' = BusLog(message_log, "orchestrator", source[c],
                                     "assistant", BudgetMessage(daily), NoMetadata)
            /\ out' = Set(out, c, Append(out[c], BudgetMessage(daily)))
            /\ hist' = [hist EXCEPT ![c].rows = Append(@, Len(message_log) + 1),
                                    ![c].daily = <<daily>>,
                                    ![c].path = "budget"]
            /\ pc' = Set(pc, c, "yield_short")
       ELSE /\ hist' = [hist EXCEPT ![c].daily =
                          IF settings.budget_enabled THEN <<daily>> ELSE <<>>]
            /\ pc' = Set(pc, c, AfterBudget(stream[c]))
            /\ UNCHANGED <<full_response, message_log, out>>
  /\ UNCHANGED <<configVars, ops, cost_log, cache, now, user_message, source, stream,
                 context, exc>>

(***************************************************************************)
(* Lines 87 to 92: the cache lookup of a non-streaming call.               *)
(***************************************************************************)
CacheLookup(c) ==
  /\ pc[c] = "cache"
  /\ LET got == CacheGet(cache, ttl, now, model,
                         Messages(context[c], user_message[c]))
         cached == got.value
     IN
     /\ cache' = got.cache
     /\ IF TruthyOpt(cached)
          THEN /\ message_log' = BusLog(message_log, "orchestrator", source[c],
                                        "assistant", cached[1], NoMetadata)
               /\ out' = Set(out, c, Append(out[c], cached[1]))
               /\ hist' = [hist EXCEPT ![c].rows = Append(@, Len(message_log) + 1),
                                       ![c].cached = <<cached>>,
                                       ![c].path = "cache"]
               /\ pc' = Set(pc, c, "yield_short")
          ELSE /\ hist' = [hist EXCEPT ![c].cached = <<cached>>]
               /\ pc' = Set(pc, c, "primary")
               /\ UNCHANGED <<message_log, out>>
  /\ UNCHANGED <<configVars, ops, cost_log, now, user_message, source, stream,
                 context, full_response, exc>>

(***************************************************************************)
(* Lines 93 to 112: the primary backend.  A non-streaming call that        *)
(* answers records the cost, writes the cache and yields the text, with no *)
(* suspension in between.  A streaming call gets the provider's stream.    *)
(*                                                                         *)
(* The provider is a collaborator: it answers, or it fails.  Every failure *)
(* between lines 94 and 112 reaches the handler of line 113, the failure   *)
(* of the import of line 94 included (llm_client.py, as it stands, returns *)
(* a value from an async generator, which the compiler rejects).           *)
(* self._model is the routing default, "gpt-4o-mini": complete takes its   *)
(* OpenAI branch.                                                          *)
(***************************************************************************)
InputEstimate(msgs) == ContentChars(msgs) \div 4
OutputEstimate(text) == Len(text) \div 4

\* the failed call is charged for the tokens of its prompt
PrimaryFailsLogsCost(c, e) ==
  /\ exc' = Set(exc, c, e)
  /\ pc' = Set(pc, c, "except")
  /\ cost_log' = CostLog(cost_log, now, "orchestrator", model,
                         InputEstimate(Messages(context[c], user_message[c])), 0)
  /\ UNCHANGED <<message_log, cache, full_response, out>>

PrimaryFails(c, e) ==
  /\ exc' = Set(exc, c, e)
  /\ pc' = Set(pc, c, "except")
  /\ UNCHANGED <<storeVars, full_response, out>>

PrimaryTextEmitsFirst(c, msgs, text) ==
  /\ full_response' = Set(full_response, c, text)
  /\ out' = Set(out, c, Append(out[c], text))
  /\ pc' = Set(pc, c, "yield_reply")
  /\ UNCHANGED <<message_log, cost_log, cache, exc>>

\* lines 104 to 112
PrimaryText(c, msgs, text) ==
  \* full_response = gen_or_resp or ""
  /\ full_response' = Set(full_response, c, text)
  /\ cost_log' = CostLog(cost_log, now, "orchestrator", model,
                         InputEstimate(msgs), OutputEstimate(text))
  /\ cache' = CacheSet(cache, now, model, msgs, text)
  /\ out' = Set(out, c, Append(out[c], text))
  /\ pc' = Set(pc, c, "yield_reply")
  /\ UNCHANGED <<message_log, exc>>

CallPrimary(c) ==
  /\ pc[c] = "primary"
  /\ LET msgs == Messages(context[c], user_message[c])
         cred == CompleteCredential(persisted)
     IN
     /\ \/ /\ cred.raised
           /\ PrimaryFails(c, cred.error)
           /\ hist' = [hist EXCEPT ![c].primary_calls = @ + 1,
                                   ![c].sent = Append(@, msgs)]
        \/ /\ ~cred.raised
           /\ \E e \in ProviderErrors : PrimaryFails(c, e)
           /\ hist' = [hist EXCEPT ![c].primary_calls = @ + 1,
                                   ![c].sent = Append(@, msgs)]
        \/ /\ ~cred.raised
           /\ ~stream[c]
           /\ \E text \in ProviderTexts : PrimaryText(c, msgs, text)
           /\ hist' = [hist EXCEPT ![c].primary_calls = @ + 1,
                                   ![c].sent = Append(@, msgs),
                                   ![c].cost_rows = @ + 1,
                                   ![c].cache_sets = @ + 1,
                                   ![c].got = Append(@, full_response'[c]),
                                   ![c].path = "primary"]
        \/ /\ ~cred.raised
           /\ stream[c]
           /\ pc' = Set(pc, c, "streaming")
           /\ hist' = [hist EXCEPT ![c].primary_calls = @ + 1,
                                   ![c].sent = Append(@, msgs),
                                   ![c].path = "primary"]
           /\ UNCHANGED <<storeVars, full_response, exc, out>>
  /\ UNCHANGED <<configVars, ops, now, user_message, source, stream, context>>

(***************************************************************************)
(* Lines 97 to 102 and 131: one step of "async for token in gen_or_resp".  *)
(* The provider delivers a token, ends the stream or fails.                *)
(***************************************************************************)
StreamEnds(c) ==
  LET msgs == Messages(context[c], user_message[c]) IN
  /\ cost_log' = CostLog(cost_log, now, "orchestrator", model,
                         Max(1, InputEstimate(msgs)),
                         Max(1, OutputEstimate(full_response[c])))
  /\ message_log' = BusLog(message_log, "orchestrator", source[c], "assistant",
                           full_response[c], NoMetadata)
  /\ hist' = [hist EXCEPT ![c].rows = Append(@, Len(message_log) + 1),
                          ![c].cost_rows = @ + 1]
  /\ pc' = Set(pc, c, "done")
  /\ UNCHANGED <<cache, full_response, exc, out>>

\* The i-th token of the provider's stream.
ProviderToken(i) == ProviderStream[((i - 1) % Len(ProviderStream)) + 1]

AccumulateOverwrites(full, token) == token

\* line 98: full_response += token
Accumulate(full, token) == full \o token

StreamNext(c) ==
  /\ pc[c] = "streaming"
  /\ \/ /\ Len(out[c]) < MaxTokens
        /\ LET token == ProviderToken(Len(out[c]) + 1) IN
             /\ full_response' = Set(full_response, c,
                                     Accumulate(full_response[c], token))
             /\ out' = Set(out, c, Append(out[c], token))
             /\ hist' = [hist EXCEPT ![c].got = Append(@, token)]
        /\ pc' = Set(pc, c, "yield_token")
        /\ UNCHANGED <<storeVars, exc>>
     \/ StreamEnds(c)
     \/ /\ \E e \in ProviderErrors : PrimaryFails(c, e)
        /\ UNCHANGED hist
  /\ UNCHANGED <<configVars, ops, now, user_message, source, stream, context>>

(***************************************************************************)
(* Lines 113 to 129: the handler of a primary failure.  OllamaClient reads *)
(* the persisted configuration when it is constructed.                     *)
(***************************************************************************)
OllamaClientInit(cfg) == [enabled |-> cfg.ollama_enabled]

ExceptRechecksBudget(c) ==
  /\ pc[c] = "except"
  /\ pc' = Set(pc, c, "budget")
  /\ UNCHANGED <<configVars, ops, storeVars, now, user_message, source, stream,
                 context, full_response, exc, out, hist>>

ExceptRetries(c) ==
  /\ pc[c] = "except"
  /\ pc' = Set(pc, c, "primary")
  /\ UNCHANGED <<configVars, ops, storeVars, now, user_message, source, stream,
                 context, full_response, exc, out, hist>>

Except(c) ==
  /\ pc[c] = "except"
  /\ LET ollama == OllamaClientInit(persisted) IN
     IF ollama.enabled
       THEN /\ pc' = Set(pc, c, "fallback")
            /\ UNCHANGED <<full_response, out, hist>>
       ELSE /\ full_response' = Set(full_response, c, SingleError(exc[c]))
            /\ out' = Set(out, c, Append(out[c], SingleError(exc[c])))
            /\ hist' = [hist EXCEPT ![c].path = "error"]
            /\ pc' = Set(pc, c, "yield_reply")
  /\ UNCHANGED <<configVars, ops, storeVars, now, user_message, source, stream,
                 context, exc>>

FallbackAnswerKeepsPartial(c, text) ==
  /\ out' = Set(out, c, Append(out[c], text))
  /\ UNCHANGED full_response

\* lines 118 to 123: full_response = await ollama.complete(...); yield it
FallbackAnswer(c, text) ==
  /\ full_response' = Set(full_response, c, text)
  /\ out' = Set(out, c, Append(out[c], text))

CallFallback(c) ==
  /\ pc[c] = "fallback"
  /\ \/ \E text \in OllamaTexts :
          /\ FallbackAnswer(c, text)
          /\ hist' = [hist EXCEPT ![c].fallback_calls = @ + 1,
                                  ![c].fb = <<[raised |-> FALSE, text |-> text]>>,
                                  ![c].path = "fallback"]
     \/ \E e2 \in OllamaErrors :
          /\ full_response' = Set(full_response, c, CombinedError(exc[c], e2))
          /\ out' = Set(out, c, Append(out[c], CombinedError(exc[c], e2)))
          /\ hist' = [hist EXCEPT ![c].fallback_calls = @ + 1,
                                  ![c].fb = <<[raised |-> TRUE, text |-> e2]>>,
                                  ![c].path = "fallback_failed"]
  /\ pc' = Set(pc, c, "yield_reply")
  /\ UNCHANGED <<configVars, ops, storeVars, now, user_message, source, stream,
                 context, exc>>

(***************************************************************************)
(* The caller of a call suspended at a yield: it asks for the next token,  *)
(* or it closes the generator.                                             *)
(***************************************************************************)
Suspended(c) == pc[c] \in {"yield_short", "yield_token", "yield_reply"}

\* the caller's next request starts the pipeline of the call again
ResumeReenters(c) ==
  /\ Suspended(c)
  /\ pc' = Set(pc, c, IF pc[c] = "yield_token" THEN "streaming" ELSE "memory")
  /\ UNCHANGED <<configVars, ops, storeVars, now, user_message, source, stream,
                 context, full_response, exc, out, hist>>

Resume(c) ==
  /\ Suspended(c)
  /\ IF pc[c] = "yield_token"
       THEN \* line 99: back to the provider's stream
            /\ pc' = Set(pc, c, "streaming")
            /\ UNCHANGED <<message_log, hist>>
     ELSE IF pc[c] = "yield_short"
       THEN \* lines 85 and 92: return
            /\ pc' = Set(pc, c, "done")
            /\ UNCHANGED <<message_log, hist>>
       ELSE \* lines 112, 123, 126 and 129 fall through to line 131
            /\ message_log' = BusLog(message_log, "orchestrator", source[c],
                                     "assistant", full_response[c], NoMetadata)
            /\ hist' = [hist EXCEPT ![c].rows = Append(@, Len(message_log) + 1)]
            /\ pc' = Set(pc, c, "done")
  /\ UNCHANGED <<configVars, ops, cost_log, cache, now, user_message, source, stream,
                 context, full_response, exc, out>>

\* GeneratorExit is raised at the yield.  It is no Exception: no handler of
\* process catches it, and nothing after the yield runs.
Close(c) ==
  /\ Suspended(c)
  /\ pc' = Set(pc, c, "closed")
  /\ UNCHANGED <<configVars, ops, storeVars, now, user_message, source, stream,
                 context, full_response, exc, out, hist>>

(***************************************************************************)
(* Time passes.                                                            *)
(***************************************************************************)
TickDeltas == {ttl_seconds, ttl_seconds + 1}

Tick(d) ==
  /\ now \div ttl_seconds < MaxTicks
  /\ now' = now + d
  /\ UNCHANGED <<configVars, ops, storeVars, pc, user_message, source, stream,
                 context, full_response, exc, out, hist>>

Next ==
  \/ \E c \in Calls, msg \in UserMessages, src \in Sources, st \in BOOLEAN :
       Process(c, msg, src, st)
  \/ \E c \in Calls : MemorySearch(c)
  \/ \E c \in Calls : BudgetCheck(c)
  \/ \E c \in Calls : CacheLookup(c)
  \/ \E c \in Calls : CallPrimary(c)
  \/ \E c \in Calls : StreamNext(c)
  \/ \E c \in Calls : Except(c)
  \/ \E c \in Calls : CallFallback(c)
  \/ \E c \in Calls : Resume(c)
  \/ \E c \in Calls : Close(c)
  \/ \E d \in TickDeltas : Tick(d)

Spec == Init /\ [][Next]_vars

(***************************************************************************)
(* A client of the Response Cache alone: it calls set and get with Python  *)
(* values, on a cache constructed with some ttl_seconds, while time        *)
(* passes.  No process call runs.  ops holds the latest operation.         *)
(***************************************************************************)
\* The client keeps at most this many entries in the table.
MaxEntries == 2

CacheTtls == {60, 0, -1}
CacheModels == {"gpt-4o-mini", "gpt-4o"}
CacheTexts == {"", "pong"}

\* The same message with its fields in two insertion orders, a second
\* message, and a message whose content reads like the rest of a dict.
UserDict == << <<"role", "user">>, <<"content", "a">> >>
UserDictSwapped == << <<"content", "a">>, <<"role", "user">> >>
SystemDict == << <<"role", "system">>, <<"content", "s">> >>
QuotedDict == << <<"content", "a\", \"role\": \"user">> >>

CacheRequests ==
  {[model |-> m, messages |-> <<UserDict>>] : m \in CacheModels}
    \cup {[model |-> "gpt-4o-mini", messages |-> l] :
            l \in {<<UserDictSwapped>>, <<SystemDict, UserDict>>,
                   <<UserDict, SystemDict>>, <<QuotedDict>>}}

\* The instants at which the client acts.
CacheTimes == <<0, 59, 60, 61>>

\* _hash of every request the client makes.
KeyOf == [req \in CacheRequests |-> HashJson(req.model, req.messages)]

\* The pipeline is idle: no call of process has started.
Idle ==
  /\ settings = [use_subagents |-> FALSE, budget_enabled |-> FALSE,
                 daily_usd |-> 4000, monthly_usd |-> 2010]
  /\ model = "gpt-4o-mini"
  /\ router = "None"
  /\ persisted = [ollama_enabled |-> FALSE, openai_api_key |-> FALSE]
  /\ message_log = <<>>
  /\ pc = [c \in Calls |-> "idle"]
  /\ user_message = [c \in Calls |-> ""]
  /\ source = [c \in Calls |-> ""]
  /\ stream = [c \in Calls |-> FALSE]
  /\ context = [c \in Calls |-> ""]
  /\ full_response = [c \in Calls |-> ""]
  /\ exc = [c \in Calls |-> ""]
  /\ out = [c \in Calls |-> <<>>]
  /\ hist = [c \in Calls |-> NoHist]

pipelineVars ==
  <<settings, model, router, persisted, message_log, pc, user_message, source,
    stream, context, full_response, exc, out, hist>>

\* ResponseCache(db_path, ttl_seconds) on a new database
CacheInit ==
  /\ Idle
  /\ ttl \in CacheTtls
  /\ cache = <<>>
  /\ cost_log = <<>>
  /\ now = CacheTimes[1]
  /\ ops = <<>>

\* cache.set(model, messages, response)
ClientSet(req, response) ==
  LET key == KeyOf[req] IN
  /\ key \in DOMAIN cache \/ Cardinality(DOMAIN cache) < MaxEntries
  /\ cache' = CacheSetKey(cache, now, key, response)
  /\ ops' = <<[op |-> "set", req |-> req, text |-> response, result |-> <<>>,
               replaced |-> IF key \in DOMAIN cache THEN <<cache[key].value>> ELSE <<>>,
               after |-> <<>>, removed |-> FALSE]>>
  /\ UNCHANGED <<pipelineVars, cost_log, now, ttl>>

\* cache.get(model, messages)
ClientGet(req) ==
  LET got == CacheGetKey(cache, ttl, now, KeyOf[req]) IN
  /\ cache' = got.cache
  /\ ops' = <<[op |-> "get", req |-> req, text |-> "", result |-> got.value,
               replaced |-> <<>>,
               \* the request of the set that this get follows
               after |-> IF ops # <<>> /\ ops[1].op = "set"
                           THEN <<ops[1].req>> ELSE <<>>,
               removed |-> got.cache # cache]>>
  /\ UNCHANGED <<pipelineVars, cost_log, now, ttl>>

\* time.time() moves on to the next instant
ClientWaits ==
  /\ \E i \in 1..(Len(CacheTimes) - 1) : now = CacheTimes[i] /\ now' = CacheTimes[i + 1]
  /\ UNCHANGED <<pipelineVars, cost_log, cache, ttl, ops>>

CacheNext ==
  \/ \E req \in CacheRequests, response \in CacheTexts : ClientSet(req, response)
  \/ \E req \in CacheRequests : ClientGet(req)
  \/ ClientWaits

SpecCache == CacheInit /\ [][CacheNext]_vars

(***************************************************************************)
(* A client of the Cost Ledger alone: it calls log, and reads the daily    *)
(* total, while the UTC day changes.  No process call runs.  ops holds     *)
(* every call of log with the cost it returned.                            *)
(***************************************************************************)
\* The client calls log at most this many times.
MaxLogs == 2

\* Listed models and one that MODEL_COSTS does not list.
LedgerModels == {"gpt-4o", "gpt-4o-mini", "claude-3-haiku", "llama3.2"}
LedgerInputTokens == {0, 1000}
LedgerOutputTokens == {1, 250}

\* The last second of a UTC day and the first of the next.
LedgerTimes == <<0, SecondsPerDay - 1, SecondsPerDay>>

\* CostTracker(db_path) on a new database
LedgerInit ==
  /\ Idle
  /\ ttl = ttl_seconds
  /\ cache = <<>>
  /\ cost_log = <<>>
  /\ now = LedgerTimes[1]
  /\ ops = <<>>

\* cost_tracker.log(agent_id, model, input_tokens, output_tokens)
ClientLog(agent_id, m, input_tokens, output_tokens) ==
  /\ Len(cost_log) < MaxLogs
  /\ LET r == CostTrackerLog(cost_log, now, agent_id, m, input_tokens, output_tokens)
     IN /\ cost_log' = r.cost_log
        /\ ops' = Append(ops, [op |-> "log", model |-> m,
                               input_tokens |-> input_tokens,
                               output_tokens |-> output_tokens,
                               result |-> r.cost, at |-> now])
  /\ UNCHANGED <<pipelineVars, cache, now, ttl>>

\* datetime.utcnow() moves on to the next instant
LedgerWaits ==
  /\ \E i \in 1..(Len(LedgerTimes) - 1) : now = LedgerTimes[i] /\ now' = LedgerTimes[i + 1]
  /\ UNCHANGED <<pipelineVars, cost_log, cache, ttl, ops>>

LedgerNext ==
  \/ \E m \in LedgerModels, i \in LedgerInputTokens, o \in LedgerOutputTokens :
       ClientLog("orchestrator", m, i, o)
  \/ LedgerWaits

SpecLedger == LedgerInit /\ [][LedgerNext]_vars

(***************************************************************************)
(* The pipeline used by one caller at a time, over days: a call starts     *)
(* when no other call is in flight, the UTC day changes, and the persisted *)
(* configuration is rewritten while a call is in flight.  ops holds the    *)
(* persisted configuration as it was when the Orchestrator was             *)
(* constructed.                                                            *)
(***************************************************************************)
InFlight(c) == pc[c] \notin {"idle", "done", "closed", "raised"}

\* No other call is in flight.
Turn(c) == \A b \in Calls \ {c} : ~InFlight(b)

SeqInit ==
  /\ settings \in [use_subagents : BOOLEAN, budget_enabled : BOOLEAN,
                   daily_usd : DailyCaps, monthly_usd : MonthlyCaps]
  /\ model = "gpt-4o-mini"
  /\ router = "None"
  /\ persisted \in [ollama_enabled : BOOLEAN, openai_api_key : BOOLEAN]
  /\ message_log = <<>>
  /\ cost_log = <<>>
  /\ cache = <<>>
  /\ now = LedgerTimes[1]
  /\ pc = [c \in Calls |-> "idle"]
  /\ user_message = [c \in Calls |-> ""]
  /\ source = [c \in Calls |-> ""]
  /\ stream = [c \in Calls |-> FALSE]
  /\ context = [c \in Calls |-> ""]
  /\ full_response = [c \in Calls |-> ""]
  /\ exc = [c \in Calls |-> ""]
  /\ out = [c \in Calls |-> <<>>]
  /\ hist = [c \in Calls |-> NoHist]
  /\ ttl = ttl_seconds
  /\ ops = <<persisted>>

\* datetime.utcnow(), time.time() and date('now') move on to the next instant
DayPasses ==
  /\ \E i \in 1..(Len(LedgerTimes) - 1) : now = LedgerTimes[i] /\ now' = LedgerTimes[i + 1]
  /\ UNCHANGED <<configVars, ops, storeVars, pc, user_message, source, stream,
                 context, full_response, exc, out, hist>>

\* The setup command rewrites models.yaml and the key file while a call is
\* in flight; load_config and get_env read them whenever they are called.
ConfigWrite(cfg) ==
  /\ \E c \in Calls : InFlight(c)
  /\ cfg # persisted
  /\ persisted' = cfg
  /\ UNCHANGED <<settings, model, router, ttl, ops, storeVars, now, pc,
                 user_message, source, stream, context, full_response, exc,
                 out, hist>>

SeqNext ==
  \/ \E c \in Calls, msg \in UserMessages, src \in Sources, st \in BOOLEAN :
       Turn(c) /\ Process(c, msg, src, st)
  \/ \E c \in Calls : MemorySearch(c)
  \/ \E c \in Calls : BudgetCheck(c)
  \/ \E c \in Calls : CacheLookup(c)
  \/ \E c \in Calls : CallPrimary(c)
  \/ \E c \in Calls : StreamNext(c)
  \/ \E c \in Calls : Except(c)
  \/ \E c \in Calls : CallFallback(c)
  \/ \E c \in Calls : Resume(c)
  \/ \E c \in Calls : Close(c)
  \/ DayPasses

SpecSeq == SeqInit /\ [][SeqNext]_vars

(***************************************************************************)
(* Properties.                                                             *)
(***************************************************************************)
Direct == ~settings.use_subagents

\* The message-log rows a call appended, by role.
RowsOf(c, role) ==
  {i \in DOMAIN hist[c].rows : message_log[hist[c].rows[i]].role = role}

RowOf(c, i) == message_log[hist[c].rows[i]]

Last(seq) == seq[Len(seq)]

\* The call has ended and its caller did not close it.
Ended(c) == pc[c] \in {"done", "raised"}

\* One user-role row, then one assistant-role row.
OneExchange(c) ==
  /\ Len(hist[c].rows) = 2
  /\ RowOf(c, 1).role = "user"
  /\ RowOf(c, 2).role = "assistant"
  /\ RowOf(c, 1).id < RowOf(c, 2).id

\* C1: every call of process that ends, in either mode and on any path, has
\* appended exactly one user-role row and then exactly one assistant-role row.
C1_LoggingCompleteness == \A c \in Calls : Ended(c) => OneExchange(c)

\* The part of C1 that the direct pipeline keeps.
DirectLoggingCompleteness ==
  \A c \in Calls : (Direct /\ pc[c] = "done") => OneExchange(c)

\* C2: no failure propagates as an exception to the caller of process, in any
\* mode.
C2_NoExceptionToCaller == \A c \in Calls : pc[c] # "raised"

\* The part of C2 that the direct pipeline keeps.
DirectNoExceptionToCaller == \A c \in Calls : Direct => pc[c] # "raised"

\* C3: a streaming call closed by its caller after at least one token was
\* relayed has a cost-log row and an assistant-role row for the text
\* accumulated so far.
C3_AbandonedStreamCommits ==
  \A c \in Calls :
    (pc[c] = "closed" /\ stream[c] /\ hist[c].got # <<>> /\ hist[c].path = "primary")
      => /\ hist[c].cost_rows = 1
         /\ \E i \in RowsOf(c, "assistant") : RowOf(c, i).content = Concat(hist[c].got)

\* The call took the budget short-circuit: enforcement is on and the daily
\* total its check read was at or above the ceiling.
BudgetBlocked(c) ==
  /\ Direct
  /\ settings.budget_enabled
  /\ hist[c].daily # <<>>
  /\ hist[c].daily[1] >= settings.daily_usd

\* An unexpired cache entry for the request of call c.
ValidCached(c) ==
  LET key == Hash(model, Messages(context[c], user_message[c])) IN
  /\ key \in DOMAIN cache
  /\ ~(ttl_seconds > 0 /\ (now - cache[key].created_at) > ttl_seconds)

\* C4: a budget-blocked call yields exactly the budget-cap message, logs it as
\* the assistant reply, calls no backend, appends no cost-log row and neither
\* reads nor writes the cache, whatever the stream flag and the cache hold.
C4_BudgetShortCircuit ==
  \A c \in Calls :
    BudgetBlocked(c) =>
      /\ pc[c] \in {"yield_short", "done", "closed"}
      /\ out[c] = <<BudgetMessage(hist[c].daily[1])>>
      /\ Len(hist[c].rows) = 2
      /\ RowsOf(c, "assistant") = {2}
      /\ RowOf(c, 2).content = BudgetMessage(hist[c].daily[1])
      /\ RowOf(c, 2).source = "orchestrator" /\ RowOf(c, 2).target = source[c]
      /\ hist[c].primary_calls = 0 /\ hist[c].fallback_calls = 0
      /\ hist[c].cost_rows = 0
      /\ hist[c].cache_sets = 0 /\ hist[c].cached = <<>>

\* A non-streaming call was blocked at a total equal to the ceiling while the
\* cache held a valid response for it, and it has returned.
C4_Witness ==
  \E c \in Calls :
    /\ BudgetBlocked(c) /\ hist[c].daily[1] = settings.daily_usd
    /\ ~stream[c] /\ ValidCached(c) /\ pc[c] = "done"

\* A streaming call was blocked.
C4_WitnessStream == \E c \in Calls : BudgetBlocked(c) /\ stream[c] /\ pc[c] = "done"

\* C5: when the primary backend raised and the enabled fallback answered, the
\* call yields the fallback's text, logs exactly that text as the assistant
\* reply and ends without raising.
C5_FallbackAnswers ==
  \A c \in Calls :
    (hist[c].fb # <<>> /\ ~hist[c].fb[1].raised) =>
      /\ pc[c] \in {"yield_reply", "done", "closed"}
      /\ Last(out[c]) = hist[c].fb[1].text
      /\ pc[c] = "done" =>
           /\ OneExchange(c)
           /\ RowOf(c, 2).content = hist[c].fb[1].text
           /\ RowOf(c, 2).source = "orchestrator" /\ RowOf(c, 2).target = source[c]

\* The fallback answered after the primary stream failed in mid-stream, and
\* the call has returned.
C5_Witness ==
  \E c \in Calls :
    /\ hist[c].fb # <<>> /\ ~hist[c].fb[1].raised
    /\ hist[c].got # <<>> /\ pc[c] = "done"

\* C6: a non-streaming call that is not budget-blocked and finds an unexpired
\* entry, whatever its text, emits exactly that text as its only token, logs
\* it as the assistant turn, calls no backend and appends no cost-log row.
C6_CacheHit ==
  \A c \in Calls :
    (hist[c].cached # <<>> /\ hist[c].cached[1] # <<>>) =>
      /\ out[c] = hist[c].cached[1]
      /\ hist[c].primary_calls = 0 /\ hist[c].fallback_calls = 0
      /\ hist[c].cost_rows = 0
      /\ pc[c] \in {"yield_short", "done", "closed"}
      /\ RowsOf(c, "assistant") = {2}
      /\ RowOf(c, 2).content = hist[c].cached[1][1]

\* The part of C6 the code keeps: the same for every entry whose text is not
\* the empty string.
CacheHitNonEmpty ==
  \A c \in Calls :
    (hist[c].cached # <<>> /\ TruthyOpt(hist[c].cached[1])) =>
      /\ out[c] = hist[c].cached[1]
      /\ hist[c].primary_calls = 0 /\ hist[c].fallback_calls = 0
      /\ hist[c].cost_rows = 0
      /\ pc[c] \in {"yield_short", "done", "closed"}
      /\ RowsOf(c, "assistant") = {2}
      /\ RowOf(c, 2).content = hist[c].cached[1][1]

\* C7: within one call the primary backend is invoked at most once and the
\* fallback backend at most once, the fallback only after the primary.
C7_NoRetry ==
  \A c \in Calls :
    /\ hist[c].primary_calls <= 1
    /\ hist[c].fallback_calls <= 1
    /\ hist[c].fallback_calls <= hist[c].primary_calls
    /\ Len(hist[c].sent) = hist[c].primary_calls

\* Both backends were invoked and failed, and the call has returned.
C7_Witness ==
  \E c \in Calls :
    /\ hist[c].primary_calls = 1 /\ hist[c].fallback_calls = 1
    /\ hist[c].path = "fallback_failed" /\ pc[c] = "done"

\* Tokens of a call that are error messages of the pipeline.
ErrorTokens(c) ==
  {i \in DOMAIN out[c] : Contains(out[c][i], "Error: ") \/ Contains(out[c][i], "Cloud API error: ")}

\* C8: after a primary failure, a failed fallback gives one message that
\* contains both errors, and no fallback gives one message that contains the
\* primary error; that message is the logged assistant reply.
C8_ErrorMessages ==
  \A c \in Calls :
    /\ hist[c].path = "fallback_failed" =>
         /\ Contains(full_response[c], exc[c])
         /\ Contains(full_response[c], hist[c].fb[1].text)
    /\ hist[c].path = "error" =>
         /\ hist[c].fallback_calls = 0
         /\ Contains(full_response[c], exc[c])
    /\ hist[c].path \in {"fallback_failed", "error"} =>
         /\ exc[c] \in ProviderErrors \cup {CredentialError}
         /\ ErrorTokens(c) = {Len(out[c])}
         /\ Last(out[c]) = full_response[c]
         /\ pc[c] \in {"yield_reply", "done", "closed"}
         /\ pc[c] = "done" =>
              /\ OneExchange(c)
              /\ RowOf(c, 2).content = full_response[c]

\* The combined message was emitted for a missing credential and a failed
\* fallback, and logged.
C8_Witness ==
  \E c \in Calls : hist[c].path = "fallback_failed" /\ pc[c] = "done"
                    /\ exc[c] = CredentialError

\* The single error message was emitted for a failure in mid-stream and logged.
C8_WitnessSingle ==
  \E c \in Calls : hist[c].path = "error" /\ pc[c] = "done" /\ hist[c].got # <<>>

\* C9: when the memory search raised, nothing propagates, the context is
\* empty, the prompt handed to the backend is the fixed system instruction
\* and the user message, and an answering backend's text is the reply.
C9_MemoryDegradation ==
  \A c \in Calls :
    hist[c].mem_raised =>
      /\ pc[c] # "raised"
      /\ context[c] = ""
      /\ \A i \in DOMAIN hist[c].sent :
           hist[c].sent[i] = << [role |-> "system", content |-> SystemPrompt],
                                [role |-> "user", content |-> user_message[c]] >>
      /\ (pc[c] = "done" /\ hist[c].path = "primary") =>
           /\ Concat(out[c]) = Concat(hist[c].got)
           /\ OneExchange(c)
           /\ RowOf(c, 2).content = Concat(hist[c].got)

\* The memory search raised and the primary backend then answered with a
\* text that is not empty.
C9_Witness ==
  \E c \in Calls :
    /\ hist[c].mem_raised /\ pc[c] = "done" /\ hist[c].path = "primary"
    /\ hist[c].sent # <<>> /\ Concat(hist[c].got) # ""

\* C10: in direct mode, from the first step on, the log holds the inbound
\* message (source to "orchestrator", role "user") as the first row of the
\* call: before the memory query, the budget check, the cache lookup and any
\* backend call.
C10_ReceiptFirst ==
  \A c \in Calls :
    (Direct /\ pc[c] # "idle") =>
      /\ hist[c].rows # <<>>
      /\ RowOf(c, 1) = [id |-> hist[c].rows[1], source |-> source[c],
                        target |-> "orchestrator", role |-> "user",
                        content |-> user_message[c], metadata |-> NoMetadata]
      /\ \A i \in DOMAIN hist[c].rows : i > 1 => RowOf(c, 1).id < RowOf(c, i).id
      /\ pc[c] = "memory" =>
           /\ Len(hist[c].rows) = 1
           /\ hist[c].daily = <<>> /\ hist[c].cached = <<>>
           /\ hist[c].primary_calls = 0 /\ hist[c].fallback_calls = 0

\* A call stopped after the receipt: its caller closed it in mid-stream, and
\* the log holds its user row and no reply.
C10_Witness ==
  \E c \in Calls :
    /\ Direct /\ pc[c] = "closed" /\ hist[c].path = "primary"
    /\ Len(hist[c].rows) = 1 /\ RowOf(c, 1).role = "user"

\* The cost-log rows the calls appended, all calls together.
RECURSIVE CostRowsOf(_)
CostRowsOf(S) ==
  IF S = {} THEN 0
  ELSE LET c == CHOOSE x \in S : TRUE IN hist[c].cost_rows + CostRowsOf(S \ {c})

\* The streaming call is on its primary path: the provider's stream was
\* opened and the handler of a failure has not replied.
StreamingPrimary(c) == Direct /\ stream[c] /\ hist[c].path = "primary"

\* C11: a streaming call relays the provider's tokens once each and in the
\* provider's order; until the stream has ended it has appended no cost-log
\* row and no assistant-role row; once it has ended it has appended exactly
\* one cost-log row and one assistant-role row, whose content is the
\* concatenation of the relayed tokens.
C11_StreamingRelay ==
  /\ Len(cost_log) = CostRowsOf(Calls)
  /\ \A c \in Calls :
       StreamingPrimary(c) =>
         /\ out[c] = hist[c].got
         /\ \A i \in DOMAIN out[c] : out[c][i] = ProviderToken(i)
         /\ pc[c] # "done" =>
              hist[c].cost_rows = 0 /\ RowsOf(c, "assistant") = {}
         /\ pc[c] = "done" =>
              /\ hist[c].cost_rows = 1
              /\ OneExchange(c)
              /\ RowOf(c, 2).content = Concat(out[c])
              /\ RowOf(c, 2).source = "orchestrator"
              /\ RowOf(c, 2).target = source[c]

\* A stream of two tokens that ended: the reply logged is their
\* concatenation, which neither token is.
C11_Witness ==
  \E c \in Calls :
    /\ StreamingPrimary(c) /\ pc[c] = "done"
    /\ Len(out[c]) = 2 /\ out[c][1] # out[c][2]
    /\ Last(message_log).content = Concat(out[c])
    /\ hist[c].cost_rows = 1

\* The non-streaming call got its text from the primary backend.
NonStreamingPrimary(c) == Direct /\ ~stream[c] /\ hist[c].path = "primary"

\* C12: the step in which a non-streaming call gets the text of the primary
\* backend appends exactly one cost-log row, writes the text into the cache
\* under (model, messages) and only then emits it, once: right after the
\* step, get(model, messages) returns the emitted text.  The rest of the call
\* emits nothing more and touches neither the ledger nor the cache.
C12_NonStreamingRecord ==
  /\ [](\A c \in Calls :
          NonStreamingPrimary(c) =>
            /\ Len(out[c]) = 1 /\ out[c] = hist[c].got
            /\ hist[c].cost_rows = 1 /\ hist[c].cache_sets = 1)
  /\ [][\A c \in Calls :
          /\ (pc[c] = "primary" /\ pc'[c] = "yield_reply") =>
               LET msgs == Messages(context[c], user_message[c])
                   text == full_response'[c]
               IN /\ ~stream[c]
                  /\ out[c] = <<>> /\ out'[c] = <<text>>
                  /\ Len(cost_log') = Len(cost_log) + 1
                  /\ Last(cost_log').agent_id = "orchestrator"
                  /\ Last(cost_log').model = model
                  /\ Last(cost_log').input_tokens = ContentChars(msgs) \div 4
                  /\ Last(cost_log').output_tokens = Len(text) \div 4
                  /\ CacheGet(cache', ttl, now', model, msgs).value = <<text>>
          /\ (NonStreamingPrimary(c) /\ pc[c] = "yield_reply" /\ pc'[c] # pc[c]) =>
               /\ out'[c] = out[c]
               /\ cost_log' = cost_log
               /\ cache' = cache]_vars

\* A non-streaming call that ended with the text of the primary backend,
\* while the cache holds that text under its request.
C12_Witness ==
  \E c \in Calls :
    /\ NonStreamingPrimary(c) /\ pc[c] = "done"
    /\ out[c] = <<"pong">>
    /\ CacheGet(cache, ttl, now, model,
                Messages(context[c], user_message[c])).value = <<"pong">>
    /\ Len(cost_log) >= 1

\* C13: no step of a streaming call changes the cache, and a streaming call
\* neither looks the cache up nor writes it, on any path: its budget block,
\* its stream, its fallback and its error replies.
C13_StreamingSkipsCache ==
  /\ [](\A c \in Calls :
          (Direct /\ stream[c]) =>
            hist[c].cached = <<>> /\ hist[c].cache_sets = 0)
  /\ [][\A c \in Calls :
          (stream'[c] /\ pc'[c] # pc[c]) => cache' = cache]_vars

\* A streaming call that ended on the primary path while the cache held an
\* unexpired entry for its very request, written by the other call; and the
\* cache still holds that entry.
C13_Witness ==
  \E c \in Calls :
    /\ StreamingPrimary(c) /\ pc[c] = "done" /\ out[c] # <<>>
    /\ ValidCached(c)
    /\ \E b \in Calls \ {c} :
         /\ NonStreamingPrimary(b) /\ b < c
         /\ context[b] = context[c]
         /\ cache[Hash(model, Messages(context[c], user_message[c]))].value
              = out[b][1]
         /\ out[b][1] # ""

\* The routed call did none of the steps of the direct pipeline.
RoutedFrame ==
  \A c \in Calls :
    settings.use_subagents =>
      /\ hist[c] = NoHist
      /\ message_log = <<>> /\ cost_log = <<>> /\ cache = <<>>

\* C14: with use_subagents a started call relays the stream of the Task
\* Router (it is handed the router's tokens, it does not raise) and does
\* none of the steps of the direct pipeline.
C14_RoutedRelay ==
  /\ RoutedFrame
  /\ \A c \in Calls :
       (settings.use_subagents /\ pc[c] # "idle") => pc[c] \in {"routed", "done", "closed"}

(***************************************************************************)
(* The Response Cache used alone (SpecCache).                              *)
(***************************************************************************)
\* The message as a dict looked at without its insertion order.
ItemsOf(dict) == {dict[i] : i \in DOMAIN dict}

\* Two requests name the same model and the same messages in the same order.
SameContent(r1, r2) ==
  /\ r1.model = r2.model
  /\ Len(r1.messages) = Len(r2.messages)
  /\ \A i \in DOMAIN r1.messages : ItemsOf(r1.messages[i]) = ItemsOf(r2.messages[i])

\* The step is a call of get, of set.
GetStep == ops' # <<>> /\ ops'[1].op = "get" /\ now' = now
SetStep == ops' # <<>> /\ ops'[1].op = "set" /\ now' = now

\* The age at which get finds the entry under key k.
Age(k) == now - cache[k].created_at

\* C15: the key is the same for two requests exactly when they name the same
\* model and the same messages in the same order, whatever the order of the
\* fields inside a message; and a get that follows a set of the same content
\* returns the text that was set, as long as the entry has not expired.
C15_CacheDeterminism ==
  /\ [](\A r1, r2 \in CacheRequests : (KeyOf[r1] = KeyOf[r2]) <=> SameContent(r1, r2))
  /\ [][(GetStep /\ ops # <<>> /\ ops[1].op = "set") =>
          LET k == KeyOf[ops[1].req] IN
          /\ ops'[1].after = <<ops[1].req>>
          /\ k \in DOMAIN cache /\ cache[k].value = ops[1].text
          /\ IF SameContent(ops[1].req, ops'[1].req)
               THEN /\ KeyOf[ops'[1].req] = k
                    /\ (ttl <= 0 \/ Age(k) < ttl) => ops'[1].result = <<ops[1].text>>
               ELSE KeyOf[ops'[1].req] # k]_vars

\* A get returned the text set just before under the same message written
\* with its fields in the other order.
C15_Witness ==
  /\ ops # <<>> /\ ops[1].op = "get" /\ ops[1].after # <<>>
  /\ ops[1].after[1] # ops[1].req
  /\ SameContent(ops[1].after[1], ops[1].req)
  /\ ops[1].result = <<"pong">>

\* C16: with TTL > 0, get returns the stored text at every age below the TTL
\* and None at every age above it; with TTL <= 0 it returns the stored text
\* at every age.
C16_CacheTtl ==
  [][GetStep =>
       LET k == KeyOf[ops'[1].req] IN
       k \in DOMAIN cache =>
         /\ (ttl > 0 /\ Age(k) < ttl) => ops'[1].result = <<cache[k].value>>
         /\ (ttl > 0 /\ Age(k) > ttl) => ops'[1].result = <<>>
         /\ ttl <= 0 => ops'[1].result = <<cache[k].value>>]_vars

\* With a TTL of 60 a get found the entry at the age of 59.
C16_Witness ==
  /\ ttl = 60 /\ ops # <<>> /\ ops[1].op = "get"
  /\ KeyOf[ops[1].req] \in DOMAIN cache
  /\ Age(KeyOf[ops[1].req]) = 59
  /\ ops[1].result = <<"pong">>

\* With a TTL of 0 a get found an entry of the age of 61.
C16_WitnessNoExpiry ==
  /\ ttl = 0 /\ ops # <<>> /\ ops[1].op = "get"
  /\ KeyOf[ops[1].req] \in DOMAIN cache
  /\ Age(KeyOf[ops[1].req]) = 61
  /\ ops[1].result # <<>>

\* C17: set on a key that has an entry replaces it: afterwards the table
\* holds the new text under the key, get returns it, and the entries under
\* all other keys are as they were.
C17_SetReplaces ==
  [][SetStep =>
       LET k == KeyOf[ops'[1].req] IN
       /\ DOMAIN cache' = DOMAIN cache \cup {k}
       /\ cache'[k] = [value |-> ops'[1].text, created_at |-> now]
       /\ \A j \in DOMAIN cache \ {k} : cache'[j] = cache[j]
       /\ CacheGetKey(cache', ttl, now', k).value = <<ops'[1].text>>]_vars

\* A set replaced another text under its key while the table held an entry
\* under another key.
C17_Witness ==
  /\ ops # <<>> /\ ops[1].op = "set"
  /\ ops[1].replaced # <<>> /\ ops[1].replaced[1] # ops[1].text
  /\ cache[KeyOf[ops[1].req]].value = ops[1].text
  /\ Cardinality(DOMAIN cache) = 2

\* The entry under key k is older than the TTL.
Expired(k) == k \in DOMAIN cache /\ ttl > 0 /\ Age(k) > ttl

\* C18: get on an expired entry returns None and removes that entry and no
\* other; get on a missing or unexpired entry leaves the table as it is; no
\* other operation removes an entry.
C18_LazyExpiry ==
  [][/\ GetStep =>
          LET k == KeyOf[ops'[1].req] IN
          IF Expired(k)
            THEN /\ ops'[1].result = <<>>
                 /\ cache' = [j \in DOMAIN cache \ {k} |-> cache[j]]
            ELSE cache' = cache
     /\ ~GetStep => DOMAIN cache \subseteq DOMAIN cache']_vars

\* A get removed its expired entry and left another expired entry in place.
C18_Witness ==
  /\ ops # <<>> /\ ops[1].op = "get" /\ ops[1].removed
  /\ ops[1].result = <<>>
  /\ KeyOf[ops[1].req] \notin DOMAIN cache
  /\ \E j \in DOMAIN cache : Expired(j)

(***************************************************************************)
(* The Cost Ledger used alone (SpecLedger).                                *)
(***************************************************************************)
\* The sum of the costs that the calls of log on the given day returned.
RECURSIVE SumReturned(_, _)
SumReturned(calls, day) ==
  IF calls = <<>> THEN 0
  ELSE (IF Date(Head(calls).at) = day THEN Head(calls).result ELSE 0)
       + SumReturned(Tail(calls), day)

\* C19: the daily total is the sum of the costs returned by the calls of log
\* made on the current UTC date, whatever earlier dates left in the ledger.
C19_CostAdditivity ==
  get_daily_total(cost_log, now) = SumReturned(ops, Date(now))

\* Two calls of log on the current date, of different costs: the daily total
\* is their sum.
C19_Witness ==
  /\ Len(ops) = 2
  /\ Date(ops[1].at) = Date(now) /\ Date(ops[2].at) = Date(now)
  /\ ops[1].result > 0 /\ ops[2].result > ops[1].result
  /\ get_daily_total(cost_log, now) = ops[1].result + ops[2].result

\* A call of log on the day before: the daily total of today is zero.
C19_WitnessDayChange ==
  /\ Len(ops) = 1 /\ ops[1].result > 0
  /\ Date(ops[1].at) # Date(now)
  /\ get_daily_total(cost_log, now) = 0

\* C20: every call of log appends exactly one row, and returns the cost
\* input_tokens * price_in + output_tokens * price_out at the prices of
\* MODEL_COSTS for a listed model and at 0.001 in / 0.002 out per 1000 tokens
\* for any other; the row holds the arguments and the cost returned.
C20_CostFormula ==
  /\ Len(cost_log) = Len(ops)
  /\ \A i \in DOMAIN ops :
       LET price == IF ops[i].model \in DOMAIN MODEL_COSTS
                      THEN MODEL_COSTS[ops[i].model]
                      ELSE [input |-> 100, output |-> 200]
       IN /\ ops[i].result = ops[i].input_tokens * price.input
                               + ops[i].output_tokens * price.output
          /\ cost_log[i] = [timestamp |-> ops[i].at, agent_id |-> "orchestrator",
                            model |-> ops[i].model,
                            input_tokens |-> ops[i].input_tokens,
                            output_tokens |-> ops[i].output_tokens,
                            cost_usd |-> ops[i].result]

\* 1000 input and 250 output tokens cost 0.00875 USD on gpt-4o and 0.0015 USD
\* on a model that is not listed.
C20_Witness ==
  /\ Len(ops) = 2
  /\ ops[1] = [op |-> "log", model |-> "gpt-4o", input_tokens |-> 1000,
               output_tokens |-> 250, result |-> 875000, at |-> 0]
  /\ ops[2].model = "llama3.2" /\ ops[2].input_tokens = 1000
  /\ ops[2].output_tokens = 250 /\ ops[2].result = 150000
  /\ cost_log[2].cost_usd = 150000

(***************************************************************************)
(* The pipeline over days (SpecSeq).                                       *)
(***************************************************************************)
\* The cost of the ledger rows i, i + 1, ... logged at an instant t with
\* lo <= t < hi.
RECURSIVE SpentBetween(_, _, _)
SpentBetween(i, lo, hi) ==
  IF i > Len(cost_log) THEN 0
  ELSE (IF lo <= cost_log[i].timestamp /\ cost_log[i].timestamp < hi
          THEN cost_log[i].cost_usd ELSE 0)
       + SpentBetween(i + 1, lo, hi)

\* What was spent on the UTC day number d.
SpentOnDay(d) == SpentBetween(1, d * SecondsPerDay, (d + 1) * SecondsPerDay)

Today == now \div SecondsPerDay

\* C21: the budget check reads the cost of exactly the rows logged on the
\* UTC day of the check, and blocks the call exactly when enforcement is on
\* and that sum is at or above the daily ceiling: what earlier days spent
\* does not count, although no step deletes or changes a ledger row.
C21_DailyWindow ==
  [][/\ Len(cost_log') >= Len(cost_log)
     /\ \A i \in DOMAIN cost_log : cost_log'[i] = cost_log[i]
     /\ \A c \in Calls :
          (pc[c] = "budget" /\ pc'[c] # "budget") =>
            /\ settings.budget_enabled => hist'[c].daily = <<SpentOnDay(Today)>>
            /\ (pc'[c] = "yield_short") <=>
                 (settings.budget_enabled /\ SpentOnDay(Today) >= settings.daily_usd)]_vars

\* With enforcement on, the day before spent the daily ceiling or more, the
\* rows are still in the ledger, and a call of today passed its budget check
\* and got its reply from the primary backend.
C21_Witness ==
  \E c \in Calls :
    /\ settings.budget_enabled /\ Today = 1
    /\ SpentOnDay(0) >= settings.daily_usd
    /\ hist[c].daily = <<0>>
    /\ hist[c].path = "primary" /\ pc[c] = "done"
    /\ SpentOnDay(1) > 0

(***************************************************************************)
(* The Message Log under concurrent calls (Spec).                          *)
(***************************************************************************)
\* C22: every step leaves the rows of the message log as they are and adds
\* at most one row, whose id is above every id in the log; ids grow with the
\* position in the log; and every user-role row of a call has a smaller id
\* than every assistant-role row of that call, however the calls interleave.
C22_AppendOnly ==
  /\ [](/\ \A i, j \in DOMAIN message_log :
             i < j => message_log[i].id < message_log[j].id
        /\ \A c \in Calls :
             \A u \in RowsOf(c, "user") : \A a \in RowsOf(c, "assistant") :
               RowOf(c, u).id < RowOf(c, a).id)
  /\ [][/\ Len(message_log') \in {Len(message_log), Len(message_log) + 1}
        /\ \A i \in DOMAIN message_log :
             /\ message_log'[i] = message_log[i]
             /\ Len(message_log') > Len(message_log) =>
                  Last(message_log').id > message_log[i].id]_vars

\* Two calls that ended with their rows interleaved: the exchange of one
\* call lies between the user row and the assistant row of the other.
C22_Witness ==
  \E c, b \in Calls :
    /\ c # b /\ pc[c] = "done" /\ pc[b] = "done"
    /\ OneExchange(c) /\ OneExchange(b)
    /\ RowOf(c, 1).id < RowOf(b, 1).id
    /\ RowOf(b, 2).id < RowOf(c, 2).id

\* The call passed its budget check with enforcement on.
PassedBudget(c) ==
  /\ Direct /\ settings.budget_enabled
  /\ hist[c].daily # <<>> /\ hist[c].daily[1] < settings.daily_usd

\* C23: the budget check of a call is one read: the total it read is never
\* read again, the call never comes back to the check, and a call that
\* passed it is never answered with the budget-cap message, whatever the
\* ledger holds by then.  (That two concurrent calls can both pass and
\* together exceed the ceiling is the state of C23_Witness.)
C23_SingleBudgetRead ==
  /\ [](\A c \in Calls :
          PassedBudget(c) =>
            /\ hist[c].path # "budget"
            /\ pc[c] \notin {"idle", "memory", "budget"})
  /\ [][\A c \in Calls :
          /\ hist[c].daily # <<>> => hist'[c].daily = hist[c].daily
          /\ pc'[c] = "budget" => pc[c] \in {"memory", "budget"}]_vars

\* Both calls read a daily total of zero, below the ceiling; both got the
\* reply of the primary backend and recorded its cost; the daily total is now
\* above the ceiling.
C23_Witness ==
  /\ \A c \in Calls :
       /\ PassedBudget(c) /\ hist[c].daily = <<0>>
       /\ hist[c].primary_calls = 1 /\ hist[c].cost_rows = 1
       /\ hist[c].path = "primary" /\ pc[c] = "done"
  /\ Len(cost_log) = 2
  /\ get_daily_total(cost_log, now) > settings.daily_usd

(***************************************************************************)
(* Task classification of the router (SpecRouter): AgentRouter's           *)
(* _classify_task on task texts put together from a vocabulary.            *)
(***************************************************************************)
UpperCase == "ABCDEFGHIJKLMNOPQRSTUVWXYZ"

LowerCase == "abcdefghijklmnopqrstuvwxyz"

\* str.lower on one character
LowerChar(ch) ==
  IF \E i \in 1..Len(UpperCase) : SubSeq(UpperCase, i, i) = ch
    THEN LET i == CHOOSE i \in 1..Len(UpperCase) : SubSeq(UpperCase, i, i) = ch
         IN SubSeq(LowerCase, i, i)
    ELSE ch

\* task.lower()
RECURSIVE lower(_)
lower(text) ==
  IF text = "" THEN ""
  ELSE LowerChar(SubSeq(text, 1, 1)) \o lower(SubSeq(text, 2, Len(text)))

\* _classify_task with the tests for "summarize" made before those for
\* "classify"
ClassifySummarizeFirst(task) ==
  LET t == lower(task) IN
  IF Contains(t, "summar") \/ Contains(t, "summary") THEN "summarize"
  ELSE IF Contains(t, "classify") \/ Contains(t, "category") THEN "classify"
  ELSE IF Contains(t, "code") \/ Contains(t, "program") \/ Contains(t, "implement")
    THEN "code_gen"
  ELSE IF Contains(t, "reason") \/ Contains(t, "analyze") \/ Contains(t, "explain why")
    THEN "reasoning"
  ELSE "default"

\* AgentRouter._classify_task(task)
_classify_task(task) ==
  LET t == lower(task) IN
  IF Contains(t, "classify") \/ Contains(t, "category") THEN "classify"
  ELSE IF Contains(t, "summar") \/ Contains(t, "summary") THEN "summarize"
  ELSE IF Contains(t, "code") \/ Contains(t, "program") \/ Contains(t, "implement")
    THEN "code_gen"
  ELSE IF Contains(t, "reason") \/ Contains(t, "analyze") \/ Contains(t, "explain why")
    THEN "reasoning"
  ELSE "default"

\* Pieces of task texts: every keyword in some case, words that hold a
\* keyword inside, and words that hold none.
TaskWords ==
  {"hello", "please summarize this article", "Classify", "CATEGORY", "summary",
   "Summar", "decode", "Program", "implement", "Reasonable", "analyze",
   "explain why", "explain", "why", "class"}

\* A task is one piece, or two pieces with a space in between.
Tasks == TaskWords \cup {a \o " " \o b : a, b \in TaskWords}

RouterInit ==
  /\ Idle
  /\ ttl = ttl_seconds
  /\ cache = <<>>
  /\ cost_log = <<>>
  /\ now = 0
  /\ ops = <<>>

\* one call of _classify_task, with what it returned
ClientClassify(task) ==
  /\ ops' = <<[op |-> "classify", task |-> task, result |-> _classify_task(task)]>>
  /\ UNCHANGED <<pipelineVars, cost_log, cache, now, ttl>>

RouterNext == \E task \in Tasks : ClientClassify(task)

SpecRouter == RouterInit /\ [][RouterNext]_vars

\* The task types in the order of their precedence.
Precedence == <<"classify", "summarize", "code_gen", "reasoning">>

\* The keywords of a task type.
KeywordsOf(type) ==
  CASE type = "classify" -> {"classify", "category"}
    [] type = "summarize" -> {"summar", "summary"}
    [] type = "code_gen" -> {"code", "program", "implement"}
    [] type = "reasoning" -> {"reason", "analyze", "explain why"}

\* A keyword of the type occurs in the lowercased task.
Matches(task, type) == \E word \in KeywordsOf(type) : Contains(lower(task), word)

\* C24: the type returned for a task is the first type, in the order
\* classify, summarize, code_gen, reasoning, one of whose keywords is a
\* substring of the lowercased task, and "default" when no keyword occurs;
\* "please summarize this article" gives "summarize" and "hello" "default".
C24_Classification ==
  \A k \in DOMAIN ops :
    LET task == ops[k].task
        hits == {i \in DOMAIN Precedence : Matches(task, Precedence[i])}
    IN /\ hits = {} => ops[k].result = "default"
       /\ hits # {} =>
            \E i \in hits : /\ \A j \in hits : i <= j
                            /\ ops[k].result = Precedence[i]
       /\ task = "please summarize this article" => ops[k].result = "summarize"
       /\ task = "hello" => ops[k].result = "default"

\* A task with a keyword of "summarize" before, and in a different case than,
\* a keyword of "classify": the result is "classify".
C24_Witness ==
  /\ ops # <<>>
  /\ ops[1].task = "summary CATEGORY"
  /\ ops[1].result = "classify"

(***************************************************************************)
(* The audit trail of the routed mode.                                     *)
(***************************************************************************)
\* C25: a call handed to the Task Router has its task logged with role
\* "user" and, once it has ended, the reply logged with role "assistant"
\* from the router back to the source of the call, the user row first.
C25_RoutedAudit ==
  \A c \in Calls :
    (settings.use_subagents /\ pc[c] \notin {"idle", "routed"}) =>
      \E u, a \in DOMAIN message_log :
        /\ u < a
        /\ message_log[u].role = "user"
        /\ message_log[u].source = source[c]
        /\ message_log[u].target = "router"
        /\ message_log[u].content = user_message[c]
        /\ message_log[a].role = "assistant"
        /\ message_log[a].source = "router"
        /\ message_log[a].target = source[c]

(***************************************************************************)
(* The Model Backend Adapter called alone (SpecAdapter):                   *)
(* src/src/models/llm_client.py as the interpreter loads and runs it.      *)
(***************************************************************************)
StartsWith(text, prefix) ==
  /\ Len(text) >= Len(prefix)
  /\ SubSeq(text, 1, Len(prefix)) = prefix

\* _is_claude(model)
_is_claude(model_id) == StartsWith(lower(model_id), "claude")

SyntaxErrorText == "'return' with value in async generator"

AwaitTypeErrorText == "object async_generator can't be used in 'await' expression"

AnthropicKeyError == "Anthropic/Claude API key not set. Run: python main.py setup"

\* Loading the module.  _openai_complete and _anthropic_complete hold both a
\* yield and a return with a value: the compiler rejects the file, and the
\* import statement of every caller raises SyntaxError.
LlmClientImport == [raised |-> TRUE, error |-> SyntaxErrorText]

NoAnswer == [provider |-> "", network |-> FALSE, returned |-> ""]

\* The provider function called by complete is an async generator function:
\* calling it runs none of its body and gives an async generator, which
\* "return await" cannot await.
AwaitProvider(provider) ==
  [raised |-> TRUE, error |-> AwaitTypeErrorText, provider |-> provider,
   network |-> FALSE, returned |-> ""]

\* from src.models.llm_client import complete; await complete(root, model,
\* messages, stream) with the environment env
complete(env, model_id, stream_flag) ==
  IF LlmClientImport.raised
    THEN [raised |-> TRUE, error |-> LlmClientImport.error] @@ NoAnswer
  ELSE IF _is_claude(model_id)
    THEN IF ~env.anthropic_api_key
           THEN [raised |-> TRUE, error |-> AnthropicKeyError] @@ NoAnswer
           ELSE AwaitProvider("anthropic")
  ELSE IF ~env.openai_api_key
    THEN [raised |-> TRUE, error |-> CredentialError] @@ NoAnswer
  ELSE AwaitProvider("openai")

AdapterModels ==
  {"gpt-4o-mini", "gpt-4o", "claude-3-haiku", "Claude-3-Opus", "my-claude", "llama3.2"}

AdapterEnvs ==
  [openai_api_key : BOOLEAN, anthropic_api_key : BOOLEAN]

\* The number of calls of complete that a behaviour keeps.
MaxAdapterCalls == 2

AdapterInit ==
  /\ Idle
  /\ ttl = ttl_seconds
  /\ cache = <<>>
  /\ cost_log = <<>>
  /\ now = 0
  /\ ops = <<>>

\* one call of complete, with its outcome
ClientComplete(env, m, st) ==
  /\ Len(ops) < MaxAdapterCalls
  /\ ops' = Append(ops, [op |-> "complete", env |-> env, model |-> m, stream |-> st,
                         result |-> complete(env, m, st)])
  /\ UNCHANGED <<pipelineVars, cost_log, cache, now, ttl>>

AdapterNext ==
  \E env \in AdapterEnvs, m \in AdapterModels, st \in BOOLEAN : ClientComplete(env, m, st)

SpecAdapter == AdapterInit /\ [][AdapterNext]_vars

\* C26: the provider is Anthropic exactly for a model id that starts with
\* "claude" in lower case and OpenAI otherwise; without that provider's key
\* the call raises and no network call is made; with the key the call does
\* not raise and returns a token stream when stream is set, the text when
\* it is not.
C26_AdapterContract ==
  \A k \in DOMAIN ops :
    LET env == ops[k].env
        res == ops[k].result
        key == IF StartsWith(lower(ops[k].model), "claude")
                 THEN env.anthropic_api_key ELSE env.openai_api_key
    IN /\ ~key => res.raised /\ ~res.network
       /\ key => /\ ~res.raised
                 /\ res.provider = IF StartsWith(lower(ops[k].model), "claude")
                                     THEN "anthropic" ELSE "openai"
                 /\ res.returned = IF ops[k].stream THEN "stream" ELSE "text"

(***************************************************************************)
(* MemoryStore.search called alone (SpecMemory).  self.collection is None  *)
(* when chromadb cannot be imported, written <<>>; else it is <<docs>>,     *)
(* docs the documents of the index in the order of their ids.  The         *)
(* distance of a result is left out.                                       *)
(***************************************************************************)
MemoryFacts == {"likes tea", "lives in Oslo", "has a cat"}

\* The lists of distinct documents.
Documents ==
  {docs \in UNION {[1..k -> MemoryFacts] : k \in 0..Cardinality(MemoryFacts)} :
     \A i, j \in DOMAIN docs : i # j => docs[i] # docs[j]}

Collections == {<<>>} \cup {<<docs>> : docs \in Documents}

\* The values of n_results: the one of process, the default, and smaller ones.
SearchSizes == {1, 2, n_results, 5}

SearchQueries == {"hi"}

Min(a, b) == IF a <= b THEN a ELSE b

\* self.collection.query(query_texts=[query], n_results=n): the index fails,
\* or it gives the ids of the n nearest documents, all of them when it holds
\* fewer than n, in an order the embedding decides.
CollectionQuery(docs, query, n) ==
  {[raised |-> TRUE, ids |-> <<>>]}
    \cup {[raised |-> FALSE, ids |-> ids] :
            ids \in {s \in [1..Min(n, Len(docs)) -> DOMAIN docs] :
                       \A i, j \in DOMAIN s : i # j => s[i] # s[j]}}

\* search without the test of self.collection: None has no attribute query
SearchNoGuard(coll, query, n) ==
  IF coll = <<>> THEN {[raised |-> TRUE, facts |-> <<>>]}
  ELSE {IF q.raised THEN [raised |-> TRUE, facts |-> <<>>]
        ELSE [raised |-> FALSE,
              facts |-> [i \in DOMAIN q.ids |-> [id |-> q.ids[i], content |-> coll[1][q.ids[i]]]]] :
          q \in CollectionQuery(coll[1], query, n)}

\* MemoryStore.search(query, n_results): the outcomes of one call
search(coll, query, n) ==
  IF coll = <<>> THEN {[raised |-> FALSE, facts |-> <<>>]}
  ELSE {IF q.raised THEN [raised |-> TRUE, facts |-> <<>>]
        ELSE [raised |-> FALSE,
              facts |-> [i \in DOMAIN q.ids |-> [id |-> q.ids[i], content |-> coll[1][q.ids[i]]]]] :
          q \in CollectionQuery(coll[1], query, n)}

MemoryInit ==
  /\ Idle
  /\ ttl = ttl_seconds
  /\ cache = <<>>
  /\ cost_log = <<>>
  /\ now = 0
  /\ ops = <<>>

\* one call of search on a store whose index is coll, with its outcome
ClientSearch(coll, query, n) ==
  /\ \E r \in search(coll, query, n) :
       ops' = <<[op |-> "search", collection |-> coll, query |-> query, n |-> n,
                 result |-> r]>>
  /\ UNCHANGED <<pipelineVars, cost_log, cache, now, ttl>>

MemoryNext ==
  \E coll \in Collections, query \in SearchQueries, n \in SearchSizes :
    ClientSearch(coll, query, n)

SpecMemory == MemoryInit /\ [][MemoryNext]_vars

\* C27: search on a store without a semantic index does not raise and
\* returns the empty list; on a store with an index, a search that returns
\* returns at most n results.
C27_SearchDegrades ==
  \A k \in DOMAIN ops :
    /\ ops[k].collection = <<>> =>
         ~ops[k].result.raised /\ ops[k].result.facts = <<>>
    /\ (ops[k].collection # <<>> /\ ~ops[k].result.raised) =>
         Len(ops[k].result.facts) <= ops[k].n

\* A search on a store without an index has returned.
C27_Witness ==
  /\ ops # <<>>
  /\ ops[1].collection = <<>>
  /\ ops[1].result = [raised |-> FALSE, facts |-> <<>>]

\* A search with n = 2 on an index of three documents has returned two.
C27_WitnessAtMostN ==
  /\ ops # <<>>
  /\ ops[1].collection # <<>> /\ Len(ops[1].collection[1]) = 3
  /\ ops[1].n = 2
  /\ ~ops[1].result.raised /\ Len(ops[1].result.facts) = 2

(***************************************************************************)
(* The two budget caps.                                                    *)
(***************************************************************************)
\* The step is a call of a model backend by the call c.
ModelCall(c) ==
  \/ hist'[c].primary_calls > hist[c].primary_calls
  \/ hist'[c].fallback_calls > hist[c].fallback_calls

\* C28: with budget enforcement on, no model backend is called while the
\* spend of the current month is at or above budget.monthly_usd, nor while
\* the spend of the current day is at or above budget.daily_usd.
C28_BudgetCaps ==
  [][\A c \in Calls :
       (Direct /\ settings.budget_enabled /\ ModelCall(c)) =>
         /\ get_monthly_total(cost_log, now) < settings.monthly_usd
         /\ get_daily_total(cost_log, now) < settings.daily_usd]_vars

\* The half of C28 that the calls made one after the other keep: the daily cap.
DailyCapBlocks ==
  [][\A c \in Calls :
       (Direct /\ settings.budget_enabled /\ ModelCall(c)) =>
         get_daily_total(cost_log, now) < settings.daily_usd]_vars

(***************************************************************************)
(* The pipeline while the persisted configuration is rewritten             *)
(* (SpecConfig): calls one after the other, and the setup command writing  *)
(* models.yaml and the key file while a call is in flight.  ops[1] is the  *)
(* persisted configuration that Orchestrator.__init__ read.                *)
(***************************************************************************)
ConfigNext ==
  \/ \E c \in Calls, msg \in UserMessages, src \in Sources, st \in BOOLEAN :
       Turn(c) /\ Process(c, msg, src, st)
  \/ \E c \in Calls : MemorySearch(c)
  \/ \E c \in Calls : BudgetCheck(c)
  \/ \E c \in Calls : CacheLookup(c)
  \/ \E c \in Calls : CallPrimary(c)
  \/ \E c \in Calls : StreamNext(c)
  \/ \E c \in Calls : Except(c)
  \/ \E c \in Calls : CallFallback(c)
  \/ \E c \in Calls : Resume(c)
  \/ \E c \in Calls : Close(c)
  \/ \E cfg \in [ollama_enabled : BOOLEAN, openai_api_key : BOOLEAN] : ConfigWrite(cfg)

SpecConfig == SeqInit /\ [][ConfigNext]_vars

\* The configuration read at construction.
Snapshot == ops[1]

\* C29: what a call does is decided by the configuration read when the
\* Orchestrator was constructed, whatever is written to the persisted
\* configuration while the call is in flight: the settings (budget cap
\* included) and the model stay as read, the handler of a primary failure
\* turns to the fallback backend exactly when the fallback was enabled at
\* construction, and the primary call fails on a missing key exactly when
\* the key was missing at construction.
C29_ConfigSnapshot ==
  [][/\ settings' = settings /\ model' = model
     /\ \A c \in Calls :
          /\ (pc[c] = "except" /\ pc'[c] # "except") =>
               (pc'[c] = "fallback" <=> Snapshot.ollama_enabled)
          /\ (pc[c] = "primary" /\ pc'[c] # "primary") =>
               ((pc'[c] = "except" /\ exc'[c] = CredentialError)
                  <=> ~Snapshot.openai_api_key)]_vars

\* The part of C29 that holds: the settings, the budget cap among them, and
\* the model id are the ones read at construction.
SnapshotKept ==
  [][/\ settings' = settings /\ model' = model
     /\ \A c \in Calls :
          /\ hist'[c].daily # hist[c].daily =>
               (pc'[c] = "yield_short" <=>
                  (settings.budget_enabled /\ hist'[c].daily[1] >= settings.daily_usd))
          /\ hist'[c].sent # hist[c].sent =>
               \A i \in DOMAIN cost_log' : cost_log'[i].model = model]_vars

(***************************************************************************)
(* process_sync (core.py, lines 133 to 138): it runs process with          *)
(* stream=False to its end and keeps the token it was handed last.         *)
(***************************************************************************)
\* result = ""; async for token in ...: result = token; return result
process_sync(tokens) == IF tokens = <<>> THEN "" ELSE tokens[Len(tokens)]

\* C30: a non-streaming call run to its end returns, it does not raise, and
\* what process_sync makes of its tokens is their concatenation, in the
\* direct and in the routed mode.
C30_ProcessSyncFull ==
  \A c \in Calls :
    (~stream[c] /\ Ended(c)) =>
      /\ pc[c] = "done"
      /\ process_sync(out[c]) = Concat(out[c])

\* The part of C30 that holds: in the direct mode a non-streaming call
\* yields exactly once, so that the last token is the whole reply.
DirectProcessSyncFull ==
  \A c \in Calls :
    (Direct /\ ~stream[c] /\ Ended(c)) =>
      /\ pc[c] = "done"
      /\ Len(out[c]) = 1
      /\ process_sync(out[c]) = Concat(out[c])

(***************************************************************************)
(* The pipeline driven to its end (SpecLive): the caller of every call     *)
(* asks for the next token until the generator is exhausted, as            *)
(* process_sync and the dashboard's handlers do, and never closes it.  The *)
(* event loop runs every coroutine that can take a step; the provider's    *)
(* stream, the memory search and the fallback call answer or fail.         *)
(***************************************************************************)
\* One step of the call c, in the code of process or in its caller.
Step(c) ==
  \/ MemorySearch(c)
  \/ BudgetCheck(c)
  \/ CacheLookup(c)
  \/ CallPrimary(c)
  \/ StreamNext(c)
  \/ Except(c)
  \/ CallFallback(c)
  \/ Resume(c)

LiveNext ==
  \/ \E c \in Calls, msg \in UserMessages, src \in Sources, st \in BOOLEAN :
       Process(c, msg, src, st)
  \/ \E c \in Calls : MemorySearch(c)
  \/ \E c \in Calls : BudgetCheck(c)
  \/ \E c \in Calls : CacheLookup(c)
  \/ \E c \in Calls : CallPrimary(c)
  \/ \E c \in Calls : StreamNext(c)
  \/ \E c \in Calls : Except(c)
  \/ \E c \in Calls : CallFallback(c)
  \/ \E c \in Calls : Resume(c)

SpecLive == Init /\ [][LiveNext]_vars /\ \A c \in Calls : WF_vars(Step(c))

\* The position of a step in the text of process; the loop over the
\* provider's stream (lines 97 to 99) is one position.
Rank(p) ==
  CASE p = "idle" -> 0
    [] p = "memory" -> 1
    [] p = "budget" -> 2
    [] p = "cache" -> 3
    [] p = "primary" -> 4
    [] p \in {"streaming", "yield_token"} -> 5
    [] p = "except" -> 6
    [] p = "fallback" -> 7
    [] p \in {"yield_short", "yield_reply"} -> 8
    [] p \in {"done", "raised", "closed", "routed"} -> 9

\* C31: a started call whose caller keeps asking for tokens ends (it
\* returns or raises); it has yielded at most the tokens of the provider's
\* stream and one reply more; no step takes it back to an earlier position
\* of the code, and every pass of the loop over the stream yields a token.
C31_Termination ==
  /\ \A c \in Calls : (pc[c] # "idle") ~> (pc[c] \in {"done", "raised"})
  /\ [](\A c \in Calls : Len(out[c]) <= MaxTokens + 1)
  /\ [][\A c \in Calls :
          /\ Rank(pc'[c]) >= Rank(pc[c])
          /\ (pc[c] = "streaming" /\ pc'[c] = "yield_token") =>
               Len(out'[c]) = Len(out[c]) + 1]_vars

\* A streaming call got the whole stream of the provider, then the stream
\* failed, the fallback backend answered, and the call ended.
C31_Witness ==
  \E c \in Calls :
    /\ pc[c] = "done" /\ stream[c]
    /\ Len(out[c]) = MaxTokens + 1
    /\ hist[c].path = "fallback"

(***************************************************************************)
(* Token estimates of the two modes.                                       *)
(***************************************************************************)
\* The call was answered by the primary backend, recorded its cost and ended.
PrimaryDone(c) ==
  /\ Direct /\ pc[c] = "done"
  /\ hist[c].path = "primary" /\ hist[c].cost_rows = 1

\* C32: a streaming and a non-streaming call that sent the same messages and
\* got the same response text have recorded the same token counts, the
\* character lengths divided by four and rounded down, and the same cost.
C32_SameEstimates ==
  \A c, b \in Calls :
    (/\ PrimaryDone(c) /\ PrimaryDone(b)
     /\ stream[c] /\ ~stream[b]
     /\ hist[c].sent = hist[b].sent
     /\ full_response[c] = full_response[b])
      => /\ Len(cost_log) = 2
         /\ cost_log[1].input_tokens = cost_log[2].input_tokens
         /\ cost_log[1].output_tokens = cost_log[2].output_tokens
         /\ cost_log[1].cost_usd = cost_log[2].cost_usd
         /\ \A i \in DOMAIN cost_log :
              cost_log[i].output_tokens = Len(full_response[c]) \div 4

\* The part of C32 that holds: the two modes agree on a response of four
\* characters or more.
SameEstimatesLongText ==
  \A c, b \in Calls :
    (/\ PrimaryDone(c) /\ PrimaryDone(b)
     /\ stream[c] /\ ~stream[b]
     /\ hist[c].sent = hist[b].sent
     /\ full_response[c] = full_response[b]
     /\ Len(full_response[c]) >= 4)
      => /\ Len(cost_log) = 2
         /\ cost_log[1].input_tokens = cost_log[2].input_tokens
         /\ cost_log[1].output_tokens = cost_log[2].output_tokens
         /\ cost_log[1].cost_usd = cost_log[2].cost_usd

(***************************************************************************)
(* What is logged against what was emitted.                                *)
(***************************************************************************)
\* The call logged one assistant row, and its content is the concatenation
\* of the tokens the call yielded.
LoggedWhatWasEmitted(c) ==
  /\ Cardinality(RowsOf(c, "assistant")) = 1
  /\ \A i \in RowsOf(c, "assistant") : RowOf(c, i).content = Concat(out[c])

\* C33: every direct call that ran to its end logged exactly one assistant
\* row, whose content is the concatenation of all tokens it yielded, also
\* when the provider's stream failed after tokens had been relayed.
C33_LoggedEqualsEmitted ==
  \A c \in Calls : (Direct /\ pc[c] = "done") => LoggedWhatWasEmitted(c)

\* The part of C33 that holds: every path but the one on which the primary
\* stream failed after it had relayed a token.
LoggedEqualsEmittedNoPartial ==
  \A c \in Calls :
    (/\ Direct /\ pc[c] = "done"
     /\ (hist[c].path = "primary" \/ hist[c].got = <<>>))
      => LoggedWhatWasEmitted(c)

(***************************************************************************)
(* What enters the Response Cache and the Cost Ledger.                     *)
(***************************************************************************)
\* The step is the answer of the primary backend to the non-streaming call c.
NonStreamingAnswer(c) ==
  /\ ~stream[c] /\ pc[c] = "primary" /\ pc'[c] = "yield_reply"
  /\ hist'[c].path = "primary"

\* The step is the end of the primary backend's stream of the call c.
StreamCompleted(c) ==
  /\ stream[c] /\ pc[c] = "streaming" /\ pc'[c] = "done"
  /\ hist'[c].path = "primary"

\* C34: a step that puts a text into the Response Cache is the answer of
\* the primary backend to a non-streaming call, and the text is that
\* answer; a step that adds a row to the Cost Ledger is such an answer or
\* the end of a primary stream, and adds one row; the texts in the cache
\* are texts of the primary backend; a call answered by the budget message,
\* a cache hit, the fallback backend or an error message has added no cache
\* entry and no cost row.
C34_StoresPrimaryOnly ==
  /\ [](/\ \A k \in DOMAIN cache : cache[k].value \in ProviderTexts
        /\ \A c \in Calls :
             hist[c].path \in {"budget", "cache", "fallback", "fallback_failed", "error"}
               => hist[c].cost_rows = 0 /\ hist[c].cache_sets = 0)
  /\ [][/\ \A k \in DOMAIN cache' :
             (k \notin DOMAIN cache \/ cache'[k] # cache[k]) =>
               \E c \in Calls : /\ NonStreamingAnswer(c)
                                /\ cache'[k].value = full_response'[c]
                                /\ Len(cost_log') = Len(cost_log) + 1
        /\ cost_log' # cost_log =>
             /\ Len(cost_log') = Len(cost_log) + 1
             /\ SubSeq(cost_log', 1, Len(cost_log)) = cost_log
             /\ \E c \in Calls :
                  /\ NonStreamingAnswer(c) \/ StreamCompleted(c)
                  /\ hist'[c].cost_rows = hist[c].cost_rows + 1
        /\ \A c \in Calls :
             hist'[c].cost_rows # hist[c].cost_rows => cost_log' # cost_log]_vars

\* One call was answered by the primary backend and filled the cache, the
\* other was answered from the cache; a third outcome, a call answered by
\* the fallback backend, is the state of C34_WitnessFallback.
C34_Witness ==
  \E c, b \in Calls :
    /\ pc[c] = "done" /\ hist[c].path = "primary" /\ ~stream[c]
    /\ pc[b] = "done" /\ hist[b].path = "cache"
    /\ Len(cost_log) = 1
    /\ Cardinality(DOMAIN cache) = 1

C34_WitnessFallback ==
  \E c, b \in Calls :
    /\ c # b
    /\ pc[c] = "done" /\ hist[c].path = "fallback" /\ hist[c].got # <<>>
    /\ pc[b] = "done" /\ hist[b].path = "fallback_failed"
    /\ cost_log = <<>> /\ cache = <<>>

(***************************************************************************)
(* The pipeline with store writes that can fail (SpecStores).              *)
(* cost_tracker.log (lines 102 and 105) and cache.set (line 111) are       *)
(* sqlite writes made inside the try block of line 93: when one raises     *)
(* (sqlite3.OperationalError, a locked database or a full disk), the       *)
(* handler of line 113 runs as for a failure of the primary backend.       *)
(***************************************************************************)
StoreError == "database is locked"

\* lines 104 to 110 of a non-streaming call: the primary backend answered
\* with text, and cost_tracker.log raised
CostLogFails(c, text) ==
  /\ pc[c] = "primary" /\ ~stream[c]
  /\ ~CompleteCredential(persisted).raised
  /\ full_response' = Set(full_response, c, text)
  /\ exc' = Set(exc, c, StoreError)
  /\ pc' = Set(pc, c, "except")
  /\ hist' = [hist EXCEPT ![c].primary_calls = @ + 1,
                          ![c].sent = Append(@, Messages(context[c], user_message[c])),
                          ![c].got = Append(@, text)]
  /\ UNCHANGED <<configVars, ops, storeVars, now, user_message, source, stream,
                 context, out>>

\* lines 104 to 111 of a non-streaming call: the cost was logged, and
\* cache.set raised
CacheSetFails(c, text) ==
  LET msgs == Messages(context[c], user_message[c]) IN
  /\ pc[c] = "primary" /\ ~stream[c]
  /\ ~CompleteCredential(persisted).raised
  /\ full_response' = Set(full_response, c, text)
  /\ cost_log' = CostLog(cost_log, now, "orchestrator", model,
                         InputEstimate(msgs), OutputEstimate(text))
  /\ exc' = Set(exc, c, StoreError)
  /\ pc' = Set(pc, c, "except")
  /\ hist' = [hist EXCEPT ![c].primary_calls = @ + 1,
                          ![c].sent = Append(@, msgs),
                          ![c].got = Append(@, text),
                          ![c].cost_rows = @ + 1]
  /\ UNCHANGED <<configVars, ops, message_log, cache, now, user_message, source,
                 stream, context, out>>

\* lines 97 to 102 of a streaming call: the stream ended, and
\* cost_tracker.log raised
StreamCostLogFails(c) ==
  /\ pc[c] = "streaming"
  /\ exc' = Set(exc, c, StoreError)
  /\ pc' = Set(pc, c, "except")
  /\ UNCHANGED <<configVars, ops, storeVars, now, user_message, source, stream,
                 context, full_response, out, hist>>

StoresNext ==
  \/ \E c \in Calls, msg \in UserMessages, src \in Sources, st \in BOOLEAN :
       Turn(c) /\ Process(c, msg, src, st)
  \/ \E c \in Calls : MemorySearch(c)
  \/ \E c \in Calls : BudgetCheck(c)
  \/ \E c \in Calls : CacheLookup(c)
  \/ \E c \in Calls : CallPrimary(c)
  \/ \E c \in Calls : StreamNext(c)
  \/ \E c \in Calls : Except(c)
  \/ \E c \in Calls : CallFallback(c)
  \/ \E c \in Calls : Resume(c)
  \/ \E c \in Calls : Close(c)
  \/ \E c \in Calls, text \in ProviderTexts : CostLogFails(c, text)
  \/ \E c \in Calls, text \in ProviderTexts : CacheSetFails(c, text)
  \/ \E c \in Calls : StreamCostLogFails(c)

SpecStores == Init /\ [][StoresNext]_vars

\* The handler of line 113 ran for the call, and it produced the reply.
HandlerReplied(c) == hist[c].path \in {"fallback", "fallback_failed", "error"}

\* C35: the fallback backend is attempted, or an error message emitted,
\* only for a call whose primary backend call failed; a call whose primary
\* backend answered and whose cost or cache write failed gets neither, and
\* is not handed a second response.
C35_FallbackOnlyOnPrimaryFailure ==
  \A c \in Calls :
    /\ HandlerReplied(c) => exc[c] \in ProviderErrors \cup {CredentialError}
    /\ exc[c] = StoreError =>
         /\ hist[c].fallback_calls = 0
         /\ stream[c] => Len(out[c]) = Len(hist[c].got)

(***************************************************************************)
(* The sub-agent of the routed mode.                                       *)
(***************************************************************************)
\* models.yaml as the setup command writes it (cli.py, line 36)
Routing == [t \in {"default"} |-> "gpt-4o-mini"]

\* LLMAgent._get_model with self._task_type = task_type:
\* routing.get(task_type, routing.get("default", "gpt-4o-mini"))
_get_model(table, task_type) ==
  IF task_type \in DOMAIN table THEN table[task_type]
  ELSE IF "default" \in DOMAIN table THEN table["default"]
  ELSE "gpt-4o-mini"

\* The content of the system row that LLMAgent.run logs before it calls the
\* model (llm_worker.py, line 40).
RunningTask(model_id) == "Running task (model=" \o model_id \o ")"

\* C36: a task handed to the router is run by the agent with the model of
\* the routing table for the type of that task: the agent's row for the run
\* names that model.
C36_OwnModel ==
  \A c \in Calls :
    (settings.use_subagents /\ pc[c] # "idle") =>
      \E i \in DOMAIN message_log :
        /\ message_log[i].source = "default"
        /\ message_log[i].role = "system"
        /\ message_log[i].content =
             RunningTask(_get_model(Routing, _classify_task(user_message[c])))

\* GET /api/agents (dashboard/app.py, lines 295 to 306): the registry of the
\* router with the status of each agent.  Reading orch.router constructs the
\* router and its agent when there is none yet.
api_agents ==
  IF ~settings.use_subagents THEN [raised |-> FALSE, agents |-> {}]
  ELSE IF router = "None" /\ LLMAgentInit.raised
    THEN [raised |-> TRUE, agents |-> {}]
  ELSE [raised |-> FALSE, agents |-> {[id |-> "default", status |-> router.status]}]

\* C37: with sub-agents enabled the registry shows the default agent, with
\* the status "running" while a call handed to the router is in flight and
\* "idle" otherwise.
C37_AgentStatus ==
  settings.use_subagents =>
    /\ ~api_agents.raised
    /\ api_agents.agents =
         {[id |-> "default",
           status |-> IF \E c \in Calls : pc[c] = "routed" THEN "running" ELSE "idle"]}

(***************************************************************************)
(* The Response Cache used by several processes at once (SpecCacheRace).   *)
(* The dashboard, the Telegram bot and the scheduler each construct their  *)
(* own Orchestrator on the same response_cache.db.  get makes its SELECT   *)
(* (lines 34 to 37) and its DELETE (lines 42 and 43) in two transactions;  *)
(* another process can commit in between.  ops[p] is the key that the      *)
(* process p has read as expired and not deleted yet.                      *)
(***************************************************************************)
CacheClients == {1, 2}

RaceInit ==
  /\ Idle
  /\ ttl \in CacheTtls
  /\ cache = <<>>
  /\ cost_log = <<>>
  /\ now = CacheTimes[1]
  /\ ops = [p \in CacheClients |-> <<>>]

\* get, lines 33 to 41 and 45: the SELECT and the test of the age.  A
\* missing or a fresh row ends the call; an expired one is left to delete.
GetSelect(p, req) ==
  LET key == KeyOf[req] IN
  /\ ops[p] = <<>>
  /\ ops' = [ops EXCEPT ![p] =
               IF /\ key \in DOMAIN cache
                  /\ ttl > 0 /\ (now - cache[key].created_at) > ttl
                 THEN <<key>> ELSE <<>>]
  /\ UNCHANGED <<pipelineVars, cost_log, cache, now, ttl>>

\* get, lines 42 to 44: DELETE FROM cache WHERE key = ?
GetDelete(p) ==
  /\ ops[p] # <<>>
  /\ cache' = [k \in DOMAIN cache \ {ops[p][1]} |-> cache[k]]
  /\ ops' = [ops EXCEPT ![p] = <<>>]
  /\ UNCHANGED <<pipelineVars, cost_log, now, ttl>>

\* set, lines 47 to 53, one transaction
RaceSet(req, response) ==
  LET key == KeyOf[req] IN
  /\ key \in DOMAIN cache \/ Cardinality(DOMAIN cache) < MaxEntries
  /\ cache' = CacheSetKey(cache, now, key, response)
  /\ UNCHANGED <<pipelineVars, cost_log, now, ttl, ops>>

RaceNext ==
  \/ \E p \in CacheClients, req \in CacheRequests : GetSelect(p, req)
  \/ \E p \in CacheClients : GetDelete(p)
  \/ \E req \in CacheRequests, response \in CacheTexts : RaceSet(req, response)
  \/ ClientWaits

SpecCacheRace == RaceInit /\ [][RaceNext]_vars

\* C38: a step that removes an entry from the cache removes an entry that is
\* expired at that moment.
C38_NoLiveEntryRemoved ==
  [][\A k \in DOMAIN cache :
       k \notin DOMAIN cache' => (ttl > 0 /\ (now - cache[k].created_at) > ttl)]_vars

\* The part of C38 that holds: the entry was expired when get read it.
ExpiredWhenRead ==
  [][\A p \in CacheClients :
       (ops[p] = <<>> /\ ops'[p] # <<>>) =>
         /\ ops'[p][1] \in DOMAIN cache
         /\ (now - cache[ops'[p][1]].created_at) > ttl]_vars

(***************************************************************************)
(* The dashboard's file endpoints (SpecFiles): api_files_list and          *)
(* api_files_download of src/src/dashboard/app.py on a small file tree.    *)
(* A path is the sequence of its components from the root; a request path  *)
(* is absolute or relative.  There are no symbolic links in the tree, and  *)
(* the session is authenticated.                                           *)
(***************************************************************************)
\* orch.output_dir
output_dir == <<"app", "output">>

\* The directories of the tree; <<>> is the root.
Dirs ==
  {<<>>, <<"app">>, <<"app", "output">>, <<"app", "output", "sub">>,
   <<"app", "config">>}

\* The files of the tree, with their sizes.
FileSizes ==
  (<<"app", "output", "report.txt">> :> 2) @@ (<<"app", "config", "secrets.yaml">> :> 7)

Files == DOMAIN FileSizes

\* The components a request path is made of, and the longest request path.
Segments == {"..", "app", "output", "config", "sub", "report.txt", "secrets.yaml"}

MaxSegments == 3

RequestPaths ==
  [abs : BOOLEAN, segs : UNION {[1..k -> Segments] : k \in 0..MaxSegments}]

Parent(p) == IF p = <<>> THEN <<>> ELSE SubSeq(p, 1, Len(p) - 1)

\* a / b of pathlib: an absolute b replaces a, and ".." is kept as it is
PathJoin(base, req) == IF req.abs THEN req.segs ELSE base \o req.segs

\* The file or directory the operating system finds for a path: <<p>>, or
\* <<>> when a component is missing or a file is used as a directory.
RECURSIVE Lookup(_, _)
Lookup(cur, segs) ==
  IF segs = <<>> THEN <<cur>>
  ELSE IF cur \notin Dirs THEN <<>>
  ELSE LET nxt == IF Head(segs) = ".." THEN Parent(cur) ELSE Append(cur, Head(segs))
       IN IF nxt \in Dirs \cup Files THEN Lookup(nxt, Tail(segs)) ELSE <<>>

\* Path.resolve(), non-strict, without symbolic links: ".." removes the
\* component before it.
RECURSIVE Normalize(_, _)
Normalize(done, segs) ==
  IF segs = <<>> THEN done
  ELSE Normalize(IF Head(segs) = ".." THEN Parent(done) ELSE Append(done, Head(segs)),
                 Tail(segs))

resolve(p) == Normalize(<<>>, p)

\* The components of p start with those of base (PurePath.relative_to does
\* not raise).
IsRelativeTo(p, base) ==
  Len(p) >= Len(base) /\ SubSeq(p, 1, Len(base)) = base

\* The children of a directory.
Children(dir) == {p \in Dirs \cup Files : p # <<>> /\ Parent(p) = dir}

Name(p) == p[Len(p)]

\* api_files_list(path), lines 123 to 141: the status of the response and
\* the entries it lists; "at" is where the listed entry is in the tree.
api_files_list(req) ==
  LET target == PathJoin(output_dir, req)
      found == Lookup(<<>>, target)
  IN IF found = <<>> \/ found[1] \notin Dirs
       THEN [status |-> 404, files |-> {}]
     ELSE IF Children(found[1]) # {} /\ req.segs # <<>>
             /\ ~IsRelativeTo(target, output_dir)
       \* child.relative_to(out_dir) raises ValueError
       THEN [status |-> 500, files |-> {}]
     ELSE [status |-> 200,
           files |-> {[name |-> Name(ch), is_dir |-> ch \in Dirs,
                       size |-> IF ch \in Files THEN FileSizes[ch] ELSE 0,
                       at |-> ch] : ch \in Children(found[1])}]

\* api_files_download(filepath), lines 144 to 158: the status and the file
\* that is sent.
api_files_download(req) ==
  LET full_path == resolve(PathJoin(output_dir, req)) IN
  IF ~IsRelativeTo(full_path, resolve(output_dir))
    THEN [status |-> 403, files |-> {}]
  ELSE IF full_path \notin Files
    THEN [status |-> 404, files |-> {}]
  ELSE [status |-> 200,
        files |-> {[name |-> Name(full_path), is_dir |-> FALSE,
                    size |-> FileSizes[full_path], at |-> full_path]}]

FilesInit ==
  /\ Idle
  /\ ttl = ttl_seconds
  /\ cache = <<>>
  /\ cost_log = <<>>
  /\ now = 0
  /\ ops = <<>>

\* GET /api/files?path=...
ClientList(req) ==
  /\ ops' = <<[op |-> "list", req |-> req, result |-> api_files_list(req)]>>
  /\ UNCHANGED <<pipelineVars, cost_log, cache, now, ttl>>

\* GET /api/files/download/...
ClientDownload(req) ==
  /\ ops' = <<[op |-> "download", req |-> req, result |-> api_files_download(req)]>>
  /\ UNCHANGED <<pipelineVars, cost_log, cache, now, ttl>>

FilesNext ==
  \/ \E req \in RequestPaths : ClientList(req)
  \/ \E req \in RequestPaths : ClientDownload(req)

SpecFiles == FilesInit /\ [][FilesNext]_vars

\* C39: whatever the request path, every entry that the list endpoint or
\* the download endpoint returns lies in the output directory.
C39_Containment ==
  \A k \in DOMAIN ops :
    \A f \in ops[k].result.files :
      IsRelativeTo(f.at, output_dir) /\ f.at # output_dir

\* The part of C39 that holds: the download endpoint.
DownloadContained ==
  \A k \in DOMAIN ops :
    ops[k].op = "download" =>
      \A f \in ops[k].result.files :
        IsRelativeTo(f.at, output_dir) /\ f.at # output_dir
====
